---- MODULE Spec2Model ----
(***************************************************************************)
(* Document ingestion pipeline of docchat-pro: normalizeText and chunkText *)
(* (src/app/api/process-document/route.ts) and the upload POST handler     *)
(* (src/unnamed/part_003) writing documents and document_chunks; and the   *)
(* query side: findRelevantChunks and buildContext (src/unnamed/part_002)  *)
(* and the chat POST handler (src/app/api/chat/route.ts).                  *)
(***************************************************************************)
EXTENDS Integers, Sequences, FiniteSets, TLC

VARIABLES
    \* ---- chunkText (process-document/route.ts:38-72)
    text,           \* the argument text, a sequence of one-character strings
    maxChunkSize,   \* the argument maxChunkSize
    overlap,        \* the argument overlap
    start,          \* the cursor
    chunks,         \* the chunks pushed so far
    slices,         \* <<start, end>> of every iteration so far, in order
    cpc,            \* position in chunkText: "idle", "loop", "done"
    iter,           \* iterations executed (caps the exploration only)
    \* ---- normalizeText (process-document/route.ts:7-26)
    rawText,        \* the text given to normalizeText
    cleanedText,    \* normalizeText(rawText), once computed
    recleanedText,  \* normalizeText(cleanedText), once computed
    npc,            \* "idle", "raw", "cleaned", "recleaned"
    \* ---- upload POST (unnamed/part_003:12-302); its local chunks is the
    \* variable chunks above
    documents,       \* the rows of table documents
    document_chunks, \* the rows of table document_chunks
    nextId,          \* the next primary key the store generates
    embedService,    \* what the embedding service answers in this request
    upc,             \* position in the handler
    embeddings,      \* const embeddings: number[][]
    embI,            \* the i of the embedding loop (line 116)
    outstanding,     \* positions of the batch whose call has not returned
    batchEmbeddings, \* results of the returned calls of the batch, by position
    document,        \* the inserted document row, or Null
    chunkInserts,    \* const chunkInserts (line 219)
    insI,            \* the i of the insert loop (line 227)
    cleanup,         \* what the store answered to the two cleanup deletes
    response,        \* the response returned, or Null
    \* ---- the upload POST up to processDocument (unnamed/part_003:42-108)
    \* and processDocument (process-document/route.ts:153-244); its rawText,
    \* cleanedText and chunks are the variables above
    filename,        \* file.name, the pieces between its periods
    fileType,        \* let fileType of processDocument
    ipc,             \* position in the upload POST and in processDocument
    extractions,     \* calls of an extract*Text function made so far
    processResult,   \* what processDocument returned
    \* ---- findRelevantChunks and buildContext (unnamed/part_002:170-257)
    queryEmbedding,  \* the argument queryEmbedding
    limit,           \* the argument limit
    storeAnswers,    \* what the store answers to the rpc and to the fetch
    relevantChunks,  \* what findRelevantChunks returned
    context,         \* buildContext(relevantChunks)
    rpc,             \* position: "idle", "call", "returned", "built"
    \* ---- chat POST (chat/route.ts:20-250); its queryEmbedding,
    \* relevantChunks and context are the variables above
    chats,           \* the rows of table chats
    usageCount,      \* chats_count of the user's usage row
    chatId,          \* body.chatId, 0 when absent
    chatHistory,     \* let chatHistory
    completion,      \* what the completion service does in this request
    readCount,       \* fragments reader.read() has returned so far
    value,           \* the fragment of the last reader.read()
    fullResponse,    \* let fullResponse
    sent,            \* the events enqueued on the response stream, in order
    responseStream,  \* "none", "readable", "cancelled", "closed"
    endOfStream,     \* reader.read() has returned done
    abortedEarly,    \* the request was aborted before that
    completionCalls, \* calls of streamChatCompletion made so far
    newChat,         \* the id of the chat row inserted, 0 when none
    caught,          \* what the message of the error caught at line 214 holds
    chatResponse,    \* the Response returned
    qpc,             \* position in the handler
    \* requests of one user that run at the same time
    requests,        \* the requests in flight: kind, position, locals
    usage,           \* table usage: the rows of the user in this period
    isPro            \* the user's subscription is pro and active

chunkVars == <<text, maxChunkSize, overlap, start, chunks, slices, cpc, iter>>
normVars == <<rawText, cleanedText, recleanedText, npc>>

storeVars == <<documents, document_chunks, nextId>>
uploadVars == <<embedService, upc, embeddings, embI, outstanding,
                batchEmbeddings, document, chunkInserts, insI, cleanup,
                response>>

ingestVars == <<filename, fileType, ipc, extractions, processResult>>
retrieveVars == <<queryEmbedding, limit, storeAnswers, relevantChunks, context,
                  rpc>>
chatVars == <<chats, usageCount, chatId, chatHistory, completion, readCount,
             value, fullResponse, sent, responseStream, endOfStream,
             abortedEarly, completionCalls, newChat, caught, chatResponse,
             qpc>>
concurrentVars == <<requests, usage, isPro>>
queryVars == <<retrieveVars, chatVars, concurrentVars>>

vars == <<chunkVars, normVars, storeVars, uploadVars, ingestVars, queryVars>>

----------------------------------------------------------------------------
(* Bounds of the exploration *)

MaxLen == 6
MaxIter == 10
MaxFrags == 5
ExtraChunks == 1
MaxStored == 4
MaxEvents == 2

----------------------------------------------------------------------------
(* Helpers: integers and JavaScript string primitives *)

Min2(a, b) == IF a < b THEN a ELSE b
Max2(a, b) == IF a > b THEN a ELSE b
MaxOf(S) == CHOOSE x \in S : \A y \in S : y <= x
MinOf(S) == CHOOSE x \in S : \A y \in S : x <= y

\* the characters a text given to chunkText is made of: a letter, a period,
\* a newline
Alphabet == {"a", ".", "\n"}

\* character classes of the regular expressions: \s, \d, [A-Z]
Ws == {" ", "\n", "\t"}
Digits == {"1", "2"}
Upper == {"A", "B", "E", "G", "P"}

\* white space as String.prototype.trim and the regex class \s see it
IsWs(c) == c \in Ws

\* no value yet
Null == "null"

\* String.prototype.lastIndexOf(ch, fromIndex) for a one-character needle:
\* 0-based, fromIndex clamped to [0, length-1], -1 when absent
lastIndexOfChar(t, ch, from) ==
    LET lim == Min2(Max2(from, 0), Len(t) - 1)
        S == {i \in 0..lim : t[i + 1] = ch}
    IN IF S = {} THEN -1 ELSE MaxOf(S)

\* String.prototype.lastIndexOf('\n\n', fromIndex): fromIndex clamped to
\* [0, length-2]
lastIndexOfPara(t, from) ==
    LET lim == Min2(Max2(from, 0), Len(t) - 2)
        S == {i \in 0..lim : t[i + 1] = "\n" /\ t[i + 2] = "\n"}
    IN IF S = {} THEN -1 ELSE MaxOf(S)

\* String.prototype.slice(s, e): a negative index counts from the end, both
\* are clamped to [0, length], an empty range gives the empty string
sliceFrom(t, s) == IF s < 0 THEN Max2(Len(t) + s, 0) ELSE Min2(s, Len(t))
slice(t, s, e) ==
    LET from == sliceFrom(t, s)
        to == sliceFrom(t, e)
    IN IF from >= to THEN <<>> ELSE SubSeq(t, from + 1, to)

\* String.prototype.trim
trim(t) ==
    LET S == {i \in 1..Len(t) : ~IsWs(t[i])}
    IN IF S = {} THEN <<>> ELSE SubSeq(t, MinOf(S), MaxOf(S))

----------------------------------------------------------------------------
(* The store and the upload handler when no upload is modelled *)

UploadIdle ==
    /\ documents = {}
    /\ document_chunks = {}
    /\ nextId = 1
    /\ embedService = Null
    /\ upc = "idle"
    /\ embeddings = <<>>
    /\ embI = 0
    /\ outstanding = {}
    /\ batchEmbeddings = <<>>
    /\ document = Null
    /\ chunkInserts = <<>>
    /\ insI = 0
    /\ cleanup = [document |-> "none", chunks |-> "none"]
    /\ response = Null

\* processDocument has not returned
NoResult == [success |-> FALSE, error |-> "", statusCode |-> 0]

\* the upload POST's first part and processDocument when not modelled
IngestIdle ==
    /\ filename = <<>>
    /\ fileType = Null
    /\ ipc = "idle"
    /\ extractions = 0
    /\ processResult = NoResult

\* findRelevantChunks and buildContext when not modelled
RetrieveIdle ==
    /\ queryEmbedding = <<>>
    /\ limit = 0
    /\ storeAnswers = [rpc |-> "none", fetch |-> "none"]
    /\ relevantChunks = <<>>
    /\ context = <<>>
    /\ rpc = "idle"

\* no Response yet
NoChatResponse == [status |-> 0, code |-> "", error |-> <<>>, body |-> "none"]

\* the chat POST when not modelled
ChatIdle ==
    /\ chats = {}
    /\ usageCount = 0
    /\ chatId = 0
    /\ chatHistory = <<>>
    /\ completion = [create |-> "none", events |-> <<>>, ending |-> "none"]
    /\ readCount = 0
    /\ value = <<>>
    /\ fullResponse = <<>>
    /\ sent = <<>>
    /\ responseStream = "none"
    /\ endOfStream = FALSE
    /\ abortedEarly = FALSE
    /\ completionCalls = 0
    /\ newChat = 0
    /\ caught = "none"
    /\ chatResponse = NoChatResponse
    /\ qpc = "idle"

\* no concurrent requests are modelled
ConcurrentIdle ==
    /\ requests = <<>>
    /\ usage = {}
    /\ isPro = FALSE

QueryIdle == RetrieveIdle /\ ChatIdle /\ ConcurrentIdle

----------------------------------------------------------------------------
(* normalizeText *)

\* the first index j >= i with j past the end of t or t[j] outside class C:
\* where a greedy run of C that starts at i ends
scanEnd(t, i, C) ==
    MinOf({j \in i..(Len(t) + 1) : j = Len(t) + 1 \/ t[j] \notin C})

\* line 11, String.prototype.normalize('NFKC'): "FW1" stands for the
\* fullwidth digit one (U+FF11), whose compatibility form is "1"; every other
\* character of the model is its own NFKC form
NFKC(t) == [i \in 1..Len(t) |-> IF t[i] = "FW1" THEN "1" ELSE t[i]]

\* the lower-case form of a letter, for the i flag of /Page \d+/gi
lower(c) ==
    CASE c = "P" -> "p" [] c = "A" -> "a" [] c = "G" -> "g"
      [] c = "E" -> "e" [] c = "B" -> "b" [] OTHER -> c

\* Each match operator gives the index just past the match of its regular
\* expression that starts at index i of t, or 0 when none starts there.

\* /\s+/ (line 14)
matchWs(t, i) == IF t[i] \in Ws THEN scanEnd(t, i, Ws) ELSE 0

\* /\n\s*\n\s*\n+/ (line 17): starts at a newline, needs three newlines in the
\* white-space run that starts there, ends at the last newline of the run
matchNewlines(t, i) ==
    LET e == scanEnd(t, i, Ws)
        N == {j \in i..(e - 1) : t[j] = "\n"}
    IN IF t[i] = "\n" /\ Cardinality(N) >= 3 THEN MaxOf(N) + 1 ELSE 0

\* /Page \d+/gi (line 18)
matchPage(t, i) ==
    IF /\ i + 5 <= Len(t)
       /\ lower(t[i]) = "p" /\ lower(t[i + 1]) = "a"
       /\ lower(t[i + 2]) = "g" /\ lower(t[i + 3]) = "e"
       /\ t[i + 4] = " "
       /\ t[i + 5] \in Digits
    THEN scanEnd(t, i + 5, Digits)
    ELSE 0

\* /\d+\s*\/\s*\d+/ (line 19)
matchCounter(t, i) ==
    IF t[i] \notin Digits THEN 0
    ELSE LET a == scanEnd(t, i, Digits)
             b == scanEnd(t, a, Ws)
         IN IF b > Len(t) \/ t[b] # "/" THEN 0
            ELSE LET c == scanEnd(t, b + 1, Ws)
                 IN IF c > Len(t) \/ t[c] \notin Digits THEN 0
                    ELSE scanEnd(t, c, Digits)

\* /^[A-Z\s]{3,50}$/m (line 22): starts at a line start, takes 3 to 50
\* characters of the class, as many as it can, and ends at a line end
matchCapsLine(t, i) ==
    LET e == Min2(scanEnd(t, i, Upper \cup Ws), i + 50)
        E == {j \in (i + 3)..e : j = Len(t) + 1 \/ t[j] = "\n"}
    IN IF (i = 1 \/ t[i - 1] = "\n") /\ E # {} THEN MaxOf(E) ELSE 0

matchAt(re, t, i) ==
    CASE re = "ws" -> matchWs(t, i)
      [] re = "newlines" -> matchNewlines(t, i)
      [] re = "page" -> matchPage(t, i)
      [] re = "counter" -> matchCounter(t, i)
      [] re = "caps" -> matchCapsLine(t, i)

\* String.prototype.replace with a g flag: every match, found left to right,
\* none overlapping an earlier one, is replaced by rep
RECURSIVE replaceFrom(_, _, _, _)
replaceFrom(re, t, i, rep) ==
    IF i > Len(t) THEN <<>>
    ELSE LET m == matchAt(re, t, i)
         IN IF m > 0 THEN rep \o replaceFrom(re, t, m, rep)
            ELSE <<t[i]>> \o replaceFrom(re, t, i + 1, rep)

replaceAll(re, t, rep) == replaceFrom(re, t, 1, rep)

\* lines 14-22, the replacements in the order of the code
collapseWhitespace(t) == replaceAll("ws", t, <<" ">>)
collapseNewlines(t) == replaceAll("newlines", t, <<"\n", "\n">>)
removePageNumbers(t) == replaceAll("page", t, <<>>)
removePageCounters(t) == replaceAll("counter", t, <<>>)
removeCapsHeaders(t) == replaceAll("caps", t, <<>>)

\* normalizeText (lines 7-26)
normalizeText(t) ==
    IF Len(t) = 0 THEN <<>>
    ELSE trim(removeCapsHeaders(removePageCounters(removePageNumbers(
             collapseNewlines(collapseWhitespace(NFKC(t)))))))

\* the pieces the texts given to normalizeText are put together from
Frags == { <<"x">>, <<" ">>, <<"\n">>, <<"1">>, <<"/">>, <<"FW1">>,
           <<"P", "a", "g", "e", " ", "1">>, <<"P">>, <<"a", "G", "E", " ", "2">>,
           <<"A", "B">> }

RECURSIVE Concat(_)
Concat(fs) == IF Len(fs) = 0 THEN <<>> ELSE Head(fs) \o Concat(Tail(fs))

\* texts made of up to MaxFrags pieces
RawTexts == {Concat(fs) : fs \in UNION {[1..n -> Frags] : n \in 0..MaxFrags}}

NormIdle ==
    /\ rawText = Null
    /\ cleanedText = Null
    /\ recleanedText = Null
    /\ npc = "idle"

ChunkIdle ==
    /\ text = <<>>
    /\ maxChunkSize = 0
    /\ overlap = 0
    /\ start = 0
    /\ chunks = <<>>
    /\ slices = <<>>
    /\ cpc = "idle"
    /\ iter = 0

NormInit ==
    /\ rawText \in RawTexts
    /\ cleanedText = Null
    /\ recleanedText = Null
    /\ npc = "raw"
    /\ ChunkIdle
    /\ UploadIdle
    /\ IngestIdle
    /\ QueryIdle

\* cleanedText = normalizeText(rawText) (line 212)
Normalize ==
    /\ npc = "raw"
    /\ cleanedText' = normalizeText(rawText)
    /\ npc' = "cleaned"
    /\ UNCHANGED <<rawText, recleanedText>>
    /\ UNCHANGED <<chunkVars, storeVars, uploadVars, ingestVars, queryVars>>

\* normalizeText applied to its own result
NormalizeAgain ==
    /\ npc = "cleaned"
    /\ recleanedText' = normalizeText(cleanedText)
    /\ npc' = "recleaned"
    /\ UNCHANGED <<rawText, cleanedText>>
    /\ UNCHANGED <<chunkVars, storeVars, uploadVars, ingestVars, queryVars>>

NormNext == Normalize \/ NormalizeAgain

SpecNorm == NormInit /\ [][NormNext]_vars

\* C10: normalizeText is idempotent: normalizeText(normalizeText(x)) equals
\* normalizeText(x) for every text x, also when removing a "Page N" token or
\* an "N / M" counter leaves adjacent spaces or puts together a new removable
\* token.
C10_NormalizeIdempotent ==
    npc = "recleaned" => recleanedText = cleanedText

\* a paragraph break: two consecutive newlines
hasParagraphBreak(t) ==
    \E i \in 1..(Len(t) - 1) : t[i] = "\n" /\ t[i + 1] = "\n"

\* a paragraph break that stands between two ordinary paragraphs
breakBetweenParagraphs(t) ==
    \E i \in 1..(Len(t) - 3) :
        t[i] = "x" /\ t[i + 1] = "\n" /\ t[i + 2] = "\n" /\ t[i + 3] = "x"

\* C22: normalizeText keeps paragraph structure: only runs of spaces and tabs
\* are collapsed, and a paragraph break (two newlines) that stands between two
\* ordinary paragraphs of the input is still present in the output, so that
\* chunkText can cut at paragraph breaks of normalized text.
C22_ParagraphBreaksKept ==
    (npc = "cleaned" /\ breakBetweenParagraphs(rawText))
    => hasParagraphBreak(cleanedText)

----------------------------------------------------------------------------
(* chunkText, one loop iteration per step *)

\* lines 47-59: the end of the slice that starts at st
chunkEnd(t, st, maxSz) ==
    LET end0 == st + maxSz
        sentenceEnd == lastIndexOfChar(t, ".", end0)
        paragraphEnd == lastIndexOfPara(t, end0)
    IN IF end0 < Len(t)
       THEN IF 2 * paragraphEnd > 2 * st + maxSz THEN paragraphEnd
            ELSE IF 2 * sentenceEnd > 2 * st + maxSz THEN sentenceEnd + 1
            ELSE end0
       ELSE end0

\* a cursor set back by five overlaps: end - 5 * overlap
nextStartFiveOverlaps(end, ov) == end - 5 * ov

\* line 67: the next cursor
nextStart(end, ov) == end - ov

\* lines 61-64: the chunks after the slice [st, end) was taken
pushChunk(cs, t, st, end) ==
    LET chunk == trim(slice(t, st, end))
    IN IF Len(chunk) > 0 THEN Append(cs, chunk) ELSE cs

\* texts up to MaxLen characters
SmallTexts == UNION {[1..n -> Alphabet] : n \in 0..MaxLen}

\* (maxChunkSize, overlap) pairs tried on the small texts
SmallParams == {<<4, 1>>, <<5, 4>>, <<2, 2>>, <<2, 3>>}

\* the parameters processDocument passes (line 224)
IngestMaxChunkSize == 1000
IngestOverlap == 200

\* the length of the example document of the specification
ExampleLen == 2500

\* places (0-based) where an example text may hold a period, and where it may
\* hold a paragraph break: at and next to start + maxChunkSize * 0.5 and at
\* start + maxChunkSize, for the first cursor
DotPlaces == {500, 501, 1000}
ParaPlaces == {500, 503, 999}

\* the example text: letters, with periods at dots and "\n\n" at paras
ExampleText(dots, paras) ==
    [i \in 1..ExampleLen |->
        IF \E q \in paras : i - 1 \in {q, q + 1} THEN "\n"
        ELSE IF i - 1 \in dots THEN "."
        ELSE "a"]

ExampleTexts == {ExampleText(d, q) : d \in SUBSET DotPlaces, q \in SUBSET ParaPlaces}

ChunkInit ==
    /\ \/ /\ text \in SmallTexts
          /\ \E p \in SmallParams : maxChunkSize = p[1] /\ overlap = p[2]
       \/ /\ text \in ExampleTexts
          /\ maxChunkSize = IngestMaxChunkSize
          /\ overlap = IngestOverlap
    /\ start = 0
    /\ chunks = <<>>
    /\ slices = <<>>
    /\ cpc = "loop"
    /\ iter = 0
    /\ NormIdle
    /\ UploadIdle
    /\ IngestIdle
    /\ QueryIdle

\* one iteration of the while loop (lines 46-69)
ChunkIterate ==
    /\ cpc = "loop"
    /\ start < Len(text)
    /\ iter < MaxIter
    /\ LET end == chunkEnd(text, start, maxChunkSize)
           st2 == nextStart(end, overlap)
       IN /\ chunks' = pushChunk(chunks, text, start, end)
          /\ slices' = Append(slices, <<start, end>>)
          /\ start' = st2
          /\ cpc' = IF st2 >= Len(text) THEN "done" ELSE "loop"
    /\ iter' = iter + 1
    /\ UNCHANGED <<text, maxChunkSize, overlap>>
    /\ UNCHANGED <<normVars, storeVars, uploadVars, ingestVars, queryVars>>

\* the while condition is false (line 46): return chunks (line 71)
ChunkReturn ==
    /\ cpc = "loop"
    /\ start >= Len(text)
    /\ cpc' = "done"
    /\ UNCHANGED <<text, maxChunkSize, overlap, start, chunks, slices, iter>>
    /\ UNCHANGED <<normVars, storeVars, uploadVars, ingestVars, queryVars>>

ChunkNext == ChunkIterate \/ ChunkReturn

SpecChunk == ChunkInit /\ [][ChunkNext]_vars

----------------------------------------------------------------------------
(* Claims about chunkText, checked under SpecChunk *)

\* C6: chunkText terminates for every text and every (maxSize, overlap),
\* overlap >= maxSize included: the loop stops when start >= text length, and
\* it stops as soon as an iteration leaves the cursor at or before the prior
\* start.
C6_StopsWhenCursorStalls ==
    [][(iter' = iter + 1 /\ start' <= start) => cpc' = "done"]_vars

\* C7: chunking a 2500-character text with maxSize = 1000 and overlap = 200
\* gives exactly 3 chunks (indices 0..2), each at most 1000 characters long,
\* each overlapping the next by at most 200 characters.
C7_ExampleGivesThreeChunks ==
    (/\ cpc = "done"
     /\ Len(text) = ExampleLen
     /\ maxChunkSize = IngestMaxChunkSize
     /\ overlap = IngestOverlap)
    => /\ Len(chunks) = 3
       /\ \A i \in 1..Len(chunks) : Len(chunks[i]) <= IngestMaxChunkSize
       /\ \A i \in 1..(Len(slices) - 1) :
             slices[i][2] - slices[i + 1][1] <= IngestOverlap

\* C8: for 0 <= overlap < maxSize the slices [start, end) of successive
\* iterations cover the text without gaps: the first starts at 0, every later
\* one starts in [0, previous end], and when chunkText returns the last one
\* reaches the end of the text.
C8_SlicesCoverText ==
    (0 <= overlap /\ overlap < maxChunkSize)
    => /\ Len(slices) >= 1 => slices[1][1] = 0
       /\ \A i \in 2..Len(slices) :
             0 <= slices[i][1] /\ slices[i][1] <= slices[i - 1][2]
       /\ (cpc = "done" /\ Len(text) > 0)
             => slices[Len(slices)][2] >= Len(text)

\* C9: every chunk chunkText emits is at most maxSize characters long,
\* wherever the periods and paragraph breaks of the text are (stated here for
\* the pairs with 0 <= overlap < maxSize, where it fails already).
C9_ChunkAtMostMaxSize ==
    (0 <= overlap /\ overlap < maxChunkSize)
    => \A i \in 1..Len(chunks) : Len(chunks[i]) <= maxChunkSize

\* the end of the slice under the cut rule with the threshold included: a
\* paragraph break at or after start + maxSize * 0.5, else a period at or
\* after it, else start + maxSize
cutWithThresholdIncluded(t, st, maxSz) ==
    LET paragraphEnd == lastIndexOfPara(t, st + maxSz)
        sentenceEnd == lastIndexOfChar(t, ".", st + maxSz)
    IN IF 2 * paragraphEnd >= 2 * st + maxSz THEN paragraphEnd
       ELSE IF 2 * sentenceEnd >= 2 * st + maxSz THEN sentenceEnd + 1
       ELSE st + maxSz

\* C21: when the candidate end start + maxSize lies before the end of the
\* text, the chunk ends at the nearest paragraph break if that break lies at
\* or after start + maxSize * 0.5 (exactly at the threshold included), else
\* immediately after the nearest period if that period lies at or after the
\* threshold, else exactly at start + maxSize.
C21_CutAtOrAfterHalf ==
    \A i \in 1..Len(slices) :
        slices[i][1] + maxChunkSize < Len(text)
        => slices[i][2] = cutWithThresholdIncluded(text, slices[i][1], maxChunkSize)

----------------------------------------------------------------------------
(* The upload POST handler (unnamed/part_003), from processDocument on, and
   the tables documents and document_chunks it writes *)

EMBEDDING_BATCH_SIZE == 10
BATCH_SIZE == 50
expectedDimension == 1536

\* the numbers of chunks processDocument returns in the uploads explored: one
\* batch, a full embedding batch, one more, and more than one insert batch
ChunkCounts ==
    {1, EMBEDDING_BATCH_SIZE, EMBEDDING_BATCH_SIZE + ExtraChunks,
     BATCH_SIZE + ExtraChunks}

\* the content of the chunk at position k of chunks: chunks are told apart
ChunkContent(k) == <<"chunk", k>>

\* session.user.id
SessionUser == "u1"

\* a vector generateEmbedding returns: the text it was computed for and its
\* length
Vector(content, dim) == [of |-> content, dim |-> dim]

\* what the embedding service does in a request: it answers every call with
\* a vector of 1536 numbers, or it answers the call for the first or the last
\* chunk with a vector of another length, or it fails that call
EmbedServices ==
    {[kind |-> "ok", at |-> "none"]}
    \cup {[kind |-> k, at |-> a] :
            k \in {"wrong_dimension", "error"}, a \in {"first", "last"}}

\* the position (1-based) of the call the service treats differently
FaultAt(svc, n) ==
    CASE svc.at = "first" -> 1 [] svc.at = "last" -> n [] OTHER -> 0

\* generateEmbedding(chunk) for the chunk at position k, when it returns
generateEmbedding(svc, cs, k) ==
    IF svc.kind = "wrong_dimension" /\ FaultAt(svc, Len(cs)) = k
    THEN Vector(cs[k], 2 * expectedDimension)
    ELSE Vector(cs[k], expectedDimension)

\* no row, no response
NoDocument == [id |-> 0, user_id |-> "", chunk_count |-> {}]
NoResponse == [status |-> 0, code |-> "", chunk_count |-> {}]

ErrorResponse(code) == [status |-> 500, code |-> code, chunk_count |-> {}]
\* lines 267-276
SuccessResponse(cs) == [status |-> 200, code |-> "", chunk_count |-> {Len(cs)}]

\* a slice one chunk too long: slice(i, i + EMBEDDING_BATCH_SIZE + 1)
embeddingBatchTooLong(cs, i) == (i + 1)..Min2(i + EMBEDDING_BATCH_SIZE + 1, Len(cs))

\* lines 117: the positions (1-based) of chunks.slice(i, i + EMBEDDING_BATCH_SIZE)
embeddingBatch(cs, i) == (i + 1)..Min2(i + EMBEDDING_BATCH_SIZE, Len(cs))

\* the batch put before the embeddings collected so far (unshift for push)
pushBatchPrepended(embs, results, i, cs) ==
    [k \in 1..Cardinality((i + 1)..Min2(i + EMBEDDING_BATCH_SIZE, Len(cs))) |->
        results[i + k]] \o embs

\* lines 118-121: Promise.all gives the results in the order of the batch,
\* whatever the order the calls returned in; they are pushed in that order
pushBatch(embs, results, i, cs) ==
    embs \o [k \in 1..Cardinality(embeddingBatch(cs, i)) |-> results[i + k]]

\* the validation without its loop over the dimensions
embeddingsValidCountOnly(embs, cs) == Len(embs) = Len(cs)

\* lines 202-215: the embeddings pass the validation
embeddingsValid(embs, cs) ==
    /\ Len(embs) = Len(cs)
    /\ \A k \in 1..Len(embs) : embs[k].dim = expectedDimension

\* lines 219-224: the row built for chunk index (0-based)
chunkInsertRow(cs, embs, doc, index) ==
    [document_id |-> doc.id, content |-> cs[index + 1],
     embedding |-> embs[index + 1], chunk_index |-> index]

\* a slice one row too long: slice(i, i + BATCH_SIZE + 1)
insertBatchTooLong(inserts, i) ==
    SubSeq(inserts, i + 1, Min2(i + BATCH_SIZE + 1, Len(inserts)))

\* line 228: chunkInserts.slice(i, i + BATCH_SIZE)
insertBatch(inserts, i) == SubSeq(inserts, i + 1, Min2(i + BATCH_SIZE, Len(inserts)))

\* the rows the store holds after inserting batch, keys generated from id on
storedRows(batch, id) ==
    {[id |-> id + k - 1, document_id |-> batch[k].document_id,
      content |-> batch[k].content, embedding |-> batch[k].embedding,
      chunk_index |-> batch[k].chunk_index] : k \in 1..Len(batch)}

\* the store before the upload: a document of an earlier upload, two chunks
EarlierDocument == [id |-> 1, user_id |-> SessionUser, chunk_count |-> {2}]
EarlierChunks ==
    storedRows([k \in 1..2 |->
                  [document_id |-> 1, content |-> <<"earlier", k>>,
                   embedding |-> Vector(<<"earlier", k>>, expectedDimension),
                   chunk_index |-> k - 1]], 2)

UploadInit ==
    /\ documents = {EarlierDocument}
    /\ document_chunks = EarlierChunks
    /\ nextId = 4
    /\ embedService \in EmbedServices
    /\ upc = "process"
    /\ chunks = <<>>
    /\ embeddings = <<>>
    /\ embI = 0
    /\ outstanding = {}
    /\ batchEmbeddings = <<>>
    /\ document = NoDocument
    /\ chunkInserts = <<>>
    /\ insI = 0
    /\ cleanup = [document |-> "none", chunks |-> "none"]
    /\ response = NoResponse
    /\ text = <<>> /\ maxChunkSize = 0 /\ overlap = 0 /\ start = 0
    /\ slices = <<>> /\ cpc = "idle" /\ iter = 0
    /\ NormIdle
    /\ IngestIdle
    /\ QueryIdle

chunkRest == <<text, maxChunkSize, overlap, start, slices, cpc, iter>>

\* lines 80-108: processDocument throws, fails, or gives the chunks
ProcessDocument ==
    /\ upc = "process"
    /\ \/ /\ \E code \in {"PROCESSING_ERROR", "PROCESSING_FAILED"} :
               response' = ErrorResponse(code)
          /\ upc' = "done"
          /\ UNCHANGED chunks
       \/ /\ \E n \in ChunkCounts : chunks' = [k \in 1..n |-> ChunkContent(k)]
          /\ upc' = "embed"
          /\ UNCHANGED response
    /\ UNCHANGED <<chunkRest, normVars, ingestVars, queryVars, cleanup, storeVars, embedService, embeddings,
                   embI, outstanding, batchEmbeddings, document, chunkInserts,
                   insI>>

\* lines 116-119: the loop test; the calls of the next batch are issued
IssueBatch ==
    /\ upc = "embed"
    /\ embI < Len(chunks)
    /\ outstanding' = embeddingBatch(chunks, embI)
    /\ batchEmbeddings' = <<>>
    /\ upc' = "await"
    /\ UNCHANGED <<chunks, chunkRest, normVars, ingestVars, queryVars, cleanup, storeVars, embedService,
                   embeddings, embI, document, chunkInserts, insI, response>>

\* one outstanding call returns its vector
EmbeddingReturns ==
    /\ upc = "await"
    /\ \E k \in outstanding :
         /\ ~(embedService.kind = "error" /\ FaultAt(embedService, Len(chunks)) = k)
         /\ batchEmbeddings' =
              [j \in (DOMAIN batchEmbeddings) \cup {k} |->
                 IF j = k THEN generateEmbedding(embedService, chunks, k)
                 ELSE batchEmbeddings[j]]
         /\ outstanding' = outstanding \ {k}
    /\ UNCHANGED <<chunks, chunkRest, normVars, ingestVars, queryVars, cleanup, storeVars, embedService, upc,
                   embeddings, embI, document, chunkInserts, insI, response>>

\* one outstanding call throws (openai.ts:47-54): Promise.all rejects, the
\* catch of lines 277-288 answers
EmbeddingFails ==
    /\ upc = "await"
    /\ \E k \in outstanding :
         embedService.kind = "error" /\ FaultAt(embedService, Len(chunks)) = k
    /\ response' = ErrorResponse("UPLOAD_ERROR")
    /\ upc' = "done"
    /\ UNCHANGED <<chunks, chunkRest, normVars, ingestVars, queryVars, cleanup, storeVars, embedService,
                   embeddings, embI, outstanding, batchEmbeddings, document,
                   chunkInserts, insI>>

\* lines 118-127: every call of the batch returned; push, pause, next batch
BatchDone ==
    /\ upc = "await"
    /\ outstanding = {}
    /\ embeddings' = pushBatch(embeddings, batchEmbeddings, embI, chunks)
    /\ embI' = embI + EMBEDDING_BATCH_SIZE
    /\ batchEmbeddings' = <<>>
    /\ upc' = "embed"
    /\ UNCHANGED <<chunks, chunkRest, normVars, ingestVars, queryVars, cleanup, storeVars, embedService,
                   outstanding, document, chunkInserts, insI, response>>

\* lines 116, 129-131: the loop ends; the count of the embeddings is checked
CheckCount ==
    /\ upc = "embed"
    /\ embI >= Len(chunks)
    /\ IF Len(embeddings) # Len(chunks)
       THEN response' = ErrorResponse("UPLOAD_ERROR") /\ upc' = "done"
       ELSE response' = response /\ upc' = "insert_document"
    /\ UNCHANGED <<chunks, chunkRest, normVars, ingestVars, queryVars, cleanup, storeVars, embedService,
                   embeddings, embI, outstanding, batchEmbeddings, document,
                   chunkInserts, insI>>

\* lines 152-199: the document row is inserted, with chunk_count, or without
\* it when the store rejects the column; an error of the store ends the request
InsertDocument ==
    /\ upc = "insert_document"
    /\ \E outcome \in {"ok", "ok_without_chunk_count", "error"} :
         IF outcome = "error"
         THEN /\ response' = ErrorResponse("DATABASE_ERROR")
              /\ upc' = "done"
              /\ UNCHANGED <<documents, nextId, document>>
         ELSE LET row == [id |-> nextId, user_id |-> SessionUser,
                          chunk_count |-> IF outcome = "ok"
                                          THEN {Len(chunks)} ELSE {}]
              IN /\ documents' = documents \cup {row}
                 /\ document' = row
                 /\ nextId' = nextId + 1
                 /\ upc' = "validate"
                 /\ UNCHANGED response
    /\ UNCHANGED <<chunks, chunkRest, normVars, ingestVars, queryVars, cleanup, document_chunks, embedService,
                   embeddings, embI, outstanding, batchEmbeddings,
                   chunkInserts, insI>>

\* lines 201-224: the embeddings are validated (a failure throws to the catch
\* of lines 277-288) and the rows to insert are built
ValidateEmbeddings ==
    /\ upc = "validate"
    /\ IF embeddingsValid(embeddings, chunks)
       THEN /\ chunkInserts' =
                 [k \in 1..Len(chunks) |->
                    chunkInsertRow(chunks, embeddings, document, k - 1)]
            /\ upc' = "insert_chunks"
            /\ UNCHANGED response
       ELSE /\ response' = ErrorResponse("UPLOAD_ERROR")
            /\ upc' = "done"
            /\ UNCHANGED chunkInserts
    /\ UNCHANGED <<chunks, chunkRest, normVars, ingestVars, queryVars, cleanup, storeVars, embedService,
                   embeddings, embI, outstanding, batchEmbeddings, document,
                   insI>>

\* lines 227-233: the next batch of rows is inserted, or the store fails
InsertChunkBatch ==
    /\ upc = "insert_chunks"
    /\ insI < Len(chunkInserts)
    /\ \E outcome \in {"ok", "error"} :
         IF outcome = "ok"
         THEN LET batch == insertBatch(chunkInserts, insI)
              IN /\ document_chunks' = document_chunks \cup storedRows(batch, nextId)
                 /\ nextId' = nextId + Len(batch)
                 /\ insI' = insI + BATCH_SIZE
                 /\ UNCHANGED upc
         ELSE /\ upc' = "cleanup_document"
              /\ UNCHANGED <<document_chunks, nextId, insI>>
    /\ UNCHANGED <<chunks, chunkRest, normVars, ingestVars, queryVars, cleanup, documents, embedService,
                   embeddings, embI, outstanding, batchEmbeddings, document,
                   chunkInserts, response>>

\* lines 227, 267-276: the loop ends, the success response
RespondSuccess ==
    /\ upc = "insert_chunks"
    /\ insI >= Len(chunkInserts)
    /\ response' = SuccessResponse(chunks)
    /\ upc' = "done"
    /\ UNCHANGED <<chunks, chunkRest, normVars, ingestVars, queryVars, cleanup, storeVars, embedService,
                   embeddings, embI, outstanding, batchEmbeddings, document,
                   chunkInserts, insI>>

\* a delete that matches no row
deleteDocumentNoMatch(docs, id) == docs

\* documents.delete().eq('id', id): the row goes, and with it the chunk rows
\* that reference it (ON DELETE CASCADE, SUPABASE_SCHEMA.md:28)
deleteDocument(docs, id) == {d \in docs : d.id # id}
deleteChunks(rows, id) == {r \in rows : r.document_id # id}

\* line 248: the delete of the document row; the store carries it out or
\* answers an error, which the handler does not look at
CleanupDocument ==
    /\ upc = "cleanup_document"
    /\ \E outcome \in {"ok", "error"} :
         /\ cleanup' = [cleanup EXCEPT !.document = outcome]
         /\ IF outcome = "ok"
            THEN /\ documents' = deleteDocument(documents, document.id)
                 /\ document_chunks' = deleteChunks(document_chunks, document.id)
            ELSE UNCHANGED <<documents, document_chunks>>
    /\ upc' = "cleanup_chunks"
    /\ UNCHANGED <<chunks, chunkRest, normVars, ingestVars, queryVars, nextId, embedService,
                   embeddings, embI, outstanding, batchEmbeddings, document,
                   chunkInserts, insI, response>>

\* lines 250-263: the delete of the chunk rows, likewise, and the response
CleanupChunks ==
    /\ upc = "cleanup_chunks"
    /\ \E outcome \in {"ok", "error"} :
         /\ cleanup' = [cleanup EXCEPT !.chunks = outcome]
         /\ IF outcome = "ok"
            THEN document_chunks' = deleteChunks(document_chunks, document.id)
            ELSE UNCHANGED document_chunks
    /\ response' = ErrorResponse("CHUNKS_ERROR")
    /\ upc' = "done"
    /\ UNCHANGED <<chunks, chunkRest, normVars, ingestVars, queryVars, documents, nextId,
                   embedService, embeddings, embI, outstanding,
                   batchEmbeddings, document, chunkInserts, insI>>

Next ==
    \/ ProcessDocument
    \/ IssueBatch
    \/ EmbeddingReturns
    \/ EmbeddingFails
    \/ BatchDone
    \/ CheckCount
    \/ InsertDocument
    \/ ValidateEmbeddings
    \/ InsertChunkBatch
    \/ RespondSuccess
    \/ CleanupDocument
    \/ CleanupChunks

Spec == UploadInit /\ [][Next]_vars

----------------------------------------------------------------------------
(* Claims about the upload POST, checked under Spec *)

\* the rows of this upload in the store
attemptDocumentStored == \E d \in documents : d.id = document.id
attemptRows == {r \in document_chunks : r.document_id = document.id}

\* the embeddings are as many as the chunks and each has 1536 numbers
EmbeddingsAligned ==
    /\ Len(embeddings) = Len(chunks)
    /\ \A k \in 1..Len(embeddings) : embeddings[k].dim = 1536

C2_InvalidEmbeddingsLeaveNothing ==
    (upc = "done" /\ Len(chunks) > 0 /\ ~EmbeddingsAligned)
    => /\ response.status = 500
       /\ ~attemptDocumentStored
       /\ attemptRows = {}

\* C3: a chunk row is inserted only if the embeddings are as many as the
\* chunks and every vector has 1536 numbers; otherwise the ingestion fails
\* before any chunk row is persisted.
C3_ChunkRowsOnlyIfAligned ==
    /\ attemptRows # {} => EmbeddingsAligned
    /\ \A r \in document_chunks : r.embedding.dim = 1536
    /\ (upc = "done" /\ Len(chunks) > 0 /\ ~EmbeddingsAligned)
         => response.status = 500 /\ attemptRows = {}

\* an upload whose vectors are as many as the chunks, one of them of the
\* wrong length, was refused and stored no chunk row
C3_WitnessWrongDimensionRefused ==
    /\ upc = "done"
    /\ response.code = "UPLOAD_ERROR"
    /\ Len(embeddings) = Len(chunks)
    /\ \E k \in 1..Len(embeddings) : embeddings[k].dim # 1536
    /\ attemptRows = {}

\* C4: after an upload returned success its chunk rows carry the indices
\* 0..chunkCount-1 once each, the chunk_count it recorded (in the row, when
\* the table has the column, and in the response) is the number of its chunk
\* rows; and in every state no two chunk rows of a document share an index.
C4_ChunkIndicesContiguous ==
    /\ \A r1, r2 \in document_chunks :
         (r1.document_id = r2.document_id /\ r1.chunk_index = r2.chunk_index)
         => r1 = r2
    /\ response.status = 200
         => /\ attemptDocumentStored
            /\ {r.chunk_index : r \in attemptRows} = 0..(Len(chunks) - 1)
            /\ Cardinality(attemptRows) = Len(chunks)
            /\ response.chunk_count = {Cardinality(attemptRows)}
            /\ \A d \in documents :
                 d.id = document.id
                 => d.chunk_count \subseteq {Cardinality(attemptRows)}

\* an upload of more chunks than one insert batch holds returned success
C4_WitnessTwoInsertBatches ==
    /\ response.status = 200
    /\ Len(chunks) > BATCH_SIZE
    /\ Cardinality(attemptRows) = Len(chunks)

\* C5: the order of the embeddings is kept across the batches: embeddings[i]
\* is the result of the call made for chunks[i], after the embedding stage
\* there is one for every chunk, and the row stored with chunk_index i holds
\* chunks[i] and embeddings[i], for every number of chunks.
C5_EmbeddingOrderPreserved ==
    /\ Len(embeddings) <= Len(chunks)
    /\ \A k \in 1..Len(embeddings) : embeddings[k].of = chunks[k]
    /\ upc \in {"insert_document", "validate", "insert_chunks"}
         => Len(embeddings) = Len(chunks)
    /\ \A r \in attemptRows :
         /\ r.content = chunks[r.chunk_index + 1]
         /\ r.embedding = embeddings[r.chunk_index + 1]
         /\ r.embedding.of = r.content

\* an upload whose chunks are no multiple of the embedding batch size nor of
\* the insert batch size stored its rows
C5_WitnessPartialBatchStored ==
    /\ response.status = 200
    /\ Len(chunks) % EMBEDDING_BATCH_SIZE # 0
    /\ Len(chunks) % BATCH_SIZE # 0
    /\ Len(chunks) > EMBEDDING_BATCH_SIZE
    /\ Len(chunks) < BATCH_SIZE
    /\ attemptRows # {}

\* C23: during one ingestion at most EMBEDDING_BATCH_SIZE embedding calls are
\* outstanding at any time; the calls of a batch are issued only when every
\* call of the batch before has returned, and never after a call has failed.
C23_BatchesSequential ==
    /\ [](Cardinality(outstanding) <= EMBEDDING_BATCH_SIZE)
    /\ [][outstanding' \ outstanding # {}
          => (outstanding = {} /\ response = NoResponse)]_vars

\* the ten calls of a later batch are outstanding
C23_WitnessLaterBatchOutstanding ==
    /\ upc = "await"
    /\ embI >= EMBEDDING_BATCH_SIZE
    /\ Cardinality(outstanding) = EMBEDDING_BATCH_SIZE

----------------------------------------------------------------------------
(* The upload POST from the file type validation to the result of
   processDocument (unnamed/part_003:42-108), and processDocument
   (process-document/route.ts:153-244) *)

\* the pieces between the periods of the file names explored
Segments == {"report", "pdf", "PDF", "docx", "txt", "text", "TEXT", "doc",
             "exe", ""}

\* file names: one without a period, one with a period, one with two
Filenames ==
    {<<e>> : e \in Segments} \cup {<<"report", e>> : e \in Segments}
    \cup {<<"report", "pdf", e>> : e \in Segments}

\* String.prototype.toLowerCase on a piece
toLowerCase(seg) ==
    CASE seg = "PDF" -> "pdf" [] seg = "TEXT" -> "text" [] OTHER -> seg

\* filename.split('.').pop(): the piece after the last period
pop(name) == name[Len(name)]

\* getFileType (lib/rate-limit.ts:480-488)
getFileType(name) ==
    LET extension == toLowerCase(pop(name))
    IN CASE extension = "pdf" -> "pdf"
         [] extension = "txt" -> "txt"
         [] extension \in {"docx", "doc"} -> "docx"
         [] OTHER -> "unknown"

\* unnamed/part_003:44
allowedTypes == {"pdf", "txt", "docx"}

\* detectFileType (process-document/route.ts:141-147); "throws" stands for the
\* Error it throws
detectFileType(name) ==
    LET ext == pop([i \in 1..Len(name) |-> toLowerCase(name[i])])
    IN CASE ext = "pdf" -> "pdf"
         [] ext = "docx" -> "docx"
         [] ext \in {"txt", "text"} -> "txt"
         [] OTHER -> "throws"

\* process-document/route.ts:203 and 214: the least length of a usable text
MinTextLength == 10

\* the pieces the extracted texts are put together from
IngestFrags == { <<"a">>, <<" ">>, <<"a", "a", "a", "a">>,
                 <<"P", "a", "g", "e", " ", "1">> }

\* the texts an extract*Text function returns: up to MaxFrags pieces
IngestTexts ==
    {Concat(fs) : fs \in UNION {[1..n -> IngestFrags] : n \in 0..MaxFrags}}

\* process-document/route.ts:203, 214: !t || t.trim().length < 10
tooShort(t) == Len(t) = 0 \/ Len(trim(t)) < MinTextLength

\* chunkText (process-document/route.ts:38-72) from cursor st on, the chunks
\* collected so far being cs; fuel bounds the iterations evaluated
RECURSIVE chunkTextFrom(_, _, _, _, _, _)
chunkTextFrom(t, maxSz, ov, st, cs, fuel) ==
    IF st >= Len(t) \/ fuel = 0 THEN cs
    ELSE LET end == chunkEnd(t, st, maxSz)
             cs2 == pushChunk(cs, t, st, end)
         IN IF nextStart(end, ov) >= Len(t) THEN cs2
            ELSE chunkTextFrom(t, maxSz, ov, nextStart(end, ov), cs2, fuel - 1)

chunkText(t, maxSz, ov) == chunkTextFrom(t, maxSz, ov, 0, <<>>, MaxIter)

\* what processDocument returns when it fails
Failure(error, statusCode) ==
    [success |-> FALSE, error |-> error, statusCode |-> statusCode]
Success == [success |-> TRUE, error |-> "", statusCode |-> 200]

IngestInit ==
    /\ filename \in Filenames
    /\ fileType = Null
    /\ ipc = "validate_type"
    /\ extractions = 0
    /\ processResult = NoResult
    /\ response = NoResponse
    /\ rawText = Null /\ cleanedText = Null /\ recleanedText = Null
    /\ npc = "idle"
    /\ ChunkIdle
    /\ documents = {} /\ document_chunks = {} /\ nextId = 1
    /\ embedService = Null /\ upc = "idle" /\ embeddings = <<>> /\ embI = 0
    /\ outstanding = {} /\ batchEmbeddings = <<>> /\ document = NoDocument
    /\ chunkInserts = <<>> /\ insI = 0
    /\ cleanup = [document |-> "none", chunks |-> "none"]
    /\ QueryIdle

ingestRest == <<text, maxChunkSize, overlap, start, slices, cpc, iter,
                recleanedText, npc, storeVars, embedService, upc, embeddings,
                embI, outstanding, batchEmbeddings, document, chunkInserts,
                insI, cleanup, filename, queryVars>>

\* unnamed/part_003:42-54
ValidateFileType ==
    /\ ipc = "validate_type"
    /\ IF getFileType(filename) \notin allowedTypes
       THEN /\ response' = [status |-> 400, code |-> "INVALID_FILE_TYPE",
                            chunk_count |-> {}]
            /\ ipc' = "done"
       ELSE /\ ipc' = "validate_size"
            /\ UNCHANGED response
    /\ UNCHANGED <<fileType, extractions, processResult, rawText, cleanedText,
                   chunks, ingestRest>>

\* unnamed/part_003:56-70: the file is larger than 10MB or it is not; the
\* same test in processDocument (lines 169-176) then never fails
ValidateFileSize ==
    /\ ipc = "validate_size"
    /\ \E tooLarge \in BOOLEAN :
         IF tooLarge
         THEN /\ response' = [status |-> 400, code |-> "FILE_TOO_LARGE",
                              chunk_count |-> {}]
              /\ ipc' = "done"
         ELSE /\ ipc' = "detect"
              /\ UNCHANGED response
    /\ UNCHANGED <<fileType, extractions, processResult, rawText, cleanedText,
                   chunks, ingestRest>>

\* process-document/route.ts:157-167
DetectFileType ==
    /\ ipc = "detect"
    /\ IF detectFileType(filename) = "throws"
       THEN /\ processResult' = Failure("Unsupported file type", 400)
            /\ ipc' = "returned"
            /\ UNCHANGED fileType
       ELSE /\ fileType' = detectFileType(filename)
            /\ ipc' = "extract"
            /\ UNCHANGED processResult
    /\ UNCHANGED <<extractions, response, rawText, cleanedText, chunks,
                   ingestRest>>

\* process-document/route.ts:178-200: the extraction function of the file
\* type is called; it returns a text or throws
ExtractText ==
    /\ ipc = "extract"
    /\ extractions' = extractions + 1
    /\ \/ /\ rawText' \in IngestTexts
          /\ ipc' = "validate_raw"
          /\ UNCHANGED processResult
       \/ /\ processResult' = Failure("Failed to extract text", 500)
          /\ ipc' = "returned"
          /\ UNCHANGED rawText
    /\ UNCHANGED <<fileType, response, cleanedText, chunks, ingestRest>>

\* process-document/route.ts:202-209
ValidateExtractedText ==
    /\ ipc = "validate_raw"
    /\ IF tooShort(rawText)
       THEN /\ processResult' =
                 Failure("Document appears to be empty or contains no extractable text", 400)
            /\ ipc' = "returned"
       ELSE /\ ipc' = "clean"
            /\ UNCHANGED processResult
    /\ UNCHANGED <<fileType, extractions, response, rawText, cleanedText,
                   chunks, ingestRest>>

\* process-document/route.ts:211-220
CleanText ==
    /\ ipc = "clean"
    /\ cleanedText' = normalizeText(rawText)
    /\ IF tooShort(normalizeText(rawText))
       THEN /\ processResult' =
                 Failure("Document contains no meaningful text after processing", 400)
            /\ ipc' = "returned"
       ELSE /\ ipc' = "chunk"
            /\ UNCHANGED processResult
    /\ UNCHANGED <<fileType, extractions, response, rawText, chunks,
                   ingestRest>>

\* process-document/route.ts:222-236
SplitIntoChunks ==
    /\ ipc = "chunk"
    /\ chunks' = chunkText(cleanedText, IngestMaxChunkSize, IngestOverlap)
    /\ processResult' = Success
    /\ ipc' = "returned"
    /\ UNCHANGED <<fileType, extractions, response, rawText, cleanedText,
                   ingestRest>>

\* unnamed/part_003:98-108: the upload POST looks at the result
ReceiveProcessResult ==
    /\ ipc = "returned"
    /\ IF ~processResult.success
       THEN /\ response' = [status |-> 500, code |-> "PROCESSING_FAILED",
                            chunk_count |-> {}]
            /\ ipc' = "done"
       ELSE /\ ipc' = "embed"
            /\ UNCHANGED response
    /\ UNCHANGED <<fileType, extractions, processResult, rawText, cleanedText,
                   chunks, ingestRest>>

IngestNext ==
    \/ ValidateFileType
    \/ ValidateFileSize
    \/ DetectFileType
    \/ ExtractText
    \/ ValidateExtractedText
    \/ CleanText
    \/ SplitIntoChunks
    \/ ReceiveProcessResult

SpecIngest == IngestInit /\ [][IngestNext]_vars

----------------------------------------------------------------------------
(* Claims about the file type and the text thresholds, checked under
   SpecIngest *)

\* the extensions the specification supports
SupportedExtensions == {"pdf", "docx", "txt", "text"}

\* the lowercased extension of the file name
extensionOf(name) == toLowerCase(name[Len(name)])

\* the ingestion was refused because of the type of the file
RejectedAsUnsupported ==
    \/ response.code = "INVALID_FILE_TYPE"
    \/ processResult.error = "Unsupported file type"

\* the characters of t that are no white space
nonWhitespace(t) == Cardinality({i \in 1..Len(t) : ~IsWs(t[i])})

\* C11: an ingestion proceeds to text extraction if and only if the
\* lowercased extension of the file name is one of pdf, docx, txt, text: no
\* file with one of these is refused as an unsupported type by the upload
\* POST or by processDocument, and a file with another extension sees no
\* extraction call and, unless it was refused for its size, is refused as an
\* unsupported type.
C11_ExtractionIffSupportedExtension ==
    Len(filename) >= 2
    => /\ extensionOf(filename) \in SupportedExtensions
            => ~RejectedAsUnsupported
       /\ extensionOf(filename) \notin SupportedExtensions
            => /\ extractions = 0
               /\ (ipc = "done" /\ response.code # "FILE_TOO_LARGE")
                    => RejectedAsUnsupported

\* C12: processDocument returns success only if the extracted text and the
\* normalized text each hold at least 10 characters that are no white space;
\* when it fails it returns no chunks.
C12_SuccessNeedsTenNonWhitespace ==
    /\ processResult.success
         => /\ nonWhitespace(rawText) >= 10
            /\ nonWhitespace(cleanedText) >= 10
    /\ (ipc \in {"returned", "done"} /\ ~processResult.success) => chunks = <<>>

----------------------------------------------------------------------------
(* findRelevantChunks and buildContext (unnamed/part_002:170-257), and the
   function match_document_chunks of the store (middleware.ts:147-176) *)

\* A similarity is held in thousandths: 1000 stands for 1, 700 for 0.7. The
\* vectors explored have whole numbers for components and for magnitudes, so
\* every division of line 226 is of one whole number by another and equal
\* quotients are equal numbers.
Thousand == 1000

\* part_002:184
match_threshold == 700

\* the document asked about, and another one
DocumentId == 1
OtherDocumentId == 2

\* the vectors stored with the chunks; <<>> is a chunk without embedding
StoredEmbeddings == {<<1, 0>>, <<0, 1>>, <<3, 4>>, <<>>}

\* the query vectors
QueryEmbeddings == {<<1, 0>>, <<0, 1>>, <<4, 3>>}

\* the limits asked for
Limits == {1, 2}

\* Math.sqrt of a square number
Sqrt(n) == CHOOSE r \in 0..n : r * r = n

\* lines 216-219: reduce over queryEmbedding, chunk.embedding[i] || 0
RECURSIVE dotProduct(_, _, _)
dotProduct(q, c, i) ==
    IF i > Len(q) THEN 0
    ELSE q[i] * (IF i <= Len(c) THEN c[i] ELSE 0) + dotProduct(q, c, i + 1)

\* lines 220-225: reduce over the squares
RECURSIVE sumOfSquares(_, _)
sumOfSquares(v, i) ==
    IF i > Len(v) THEN 0 ELSE v[i] * v[i] + sumOfSquares(v, i + 1)

magnitude(v) == Sqrt(sumOfSquares(v, 1))

\* lines 211-228: the similarity given to a fetched chunk; 0 / 0 is NaN,
\* which line 228 turns into 0
cosineSimilarity(q, c) ==
    IF Len(c) = 0 THEN 0
    ELSE IF magnitude(q) * magnitude(c) = 0 THEN 0
    ELSE (Thousand * dotProduct(q, c, 1)) \div (magnitude(q) * magnitude(c))

\* the row of table document_chunks with index k (0-based) of document doc
chunkRow(doc, k, emb) ==
    [id |-> 10 * doc + k, document_id |-> doc, content |-> <<"chunk", k>>,
     embedding |-> emb, chunk_index |-> k]

\* the tables explored: the document asked about with up to MaxStored chunks
\* of indices 0.., and one chunk of another document
StoredChunkTables ==
    {{chunkRow(DocumentId, k - 1, embs[k]) : k \in 1..Len(embs)}
       \cup {chunkRow(OtherDocumentId, 0, <<1, 0>>)} :
     embs \in UNION {[1..n -> StoredEmbeddings] : n \in 0..MaxStored}}

\* what the store answers to the rpc and, if asked, to the fetch: data, an
\* error object, or a thrown exception (store unreachable)
StoreAnswers ==
    {[rpc |-> "ok", fetch |-> "none"]}
    \cup {[rpc |-> r, fetch |-> f] :
            r \in {"error", "throws"}, f \in {"ok", "error", "throws"}}

\* rows in ascending order of chunk_index
RECURSIVE orderByChunkIndex(_)
orderByChunkIndex(rows) ==
    IF rows = {} THEN <<>>
    ELSE LET first == CHOOSE r \in rows :
                        \A o \in rows : r.chunk_index <= o.chunk_index
         IN <<first>> \o orderByChunkIndex(rows \ {first})

\* Array.prototype.slice(0, n)
take(seq, n) == SubSeq(seq, 1, Min2(n, Len(seq)))

\* the fetch without .limit(limit * 2): every row of the document
fetchAllChunksNoLimit(rows, doc, lim) ==
    orderByChunkIndex({r \in rows : r.document_id = doc})

\* lines 197-202: the rows of the document, by chunk_index, at most limit * 2
fetchAllChunks(rows, doc, lim) ==
    take(orderByChunkIndex({r \in rows : r.document_id = doc}), lim * 2)

\* lines 210-229
withSimilarity(q, chunk) ==
    [id |-> chunk.id, document_id |-> chunk.document_id,
     content |-> chunk.content, embedding |-> chunk.embedding,
     chunk_index |-> chunk.chunk_index,
     similarity |-> cosineSimilarity(q, chunk.embedding)]

\* x put into the sorted sequence before the elements of equal similarity
insertBeforeEqual(sorted, x) ==
    LET n == Cardinality({i \in 1..Len(sorted) :
                            sorted[i].similarity > x.similarity})
    IN SubSeq(sorted, 1, n) \o <<x>> \o SubSeq(sorted, n + 1, Len(sorted))

\* x put into the sorted sequence behind the elements of equal or greater
\* similarity: the place a stable sort gives to the element met last
insertSorted(sorted, x) ==
    LET n == Cardinality({i \in 1..Len(sorted) :
                            sorted[i].similarity >= x.similarity})
    IN SubSeq(sorted, 1, n) \o <<x>> \o SubSeq(sorted, n + 1, Len(sorted))

\* line 233: Array.prototype.sort with (b.similarity || 0) - (a.similarity
\* || 0), a stable sort in descending order of similarity
RECURSIVE sortBySimilarity(_, _)
sortBySimilarity(seq, sorted) ==
    IF Len(seq) = 0 THEN sorted
    ELSE sortBySimilarity(Tail(seq), insertSorted(sorted, Head(seq)))

\* lines 197-234: the fallback, when the fetch returned rows
fallbackChunks(rows, q, doc, lim) ==
    LET allChunks == fetchAllChunks(rows, doc, lim)
        chunksWithSimilarity ==
            [i \in 1..Len(allChunks) |-> withSimilarity(q, allChunks[i])]
    IN take(sortBySimilarity(chunksWithSimilarity, <<>>), lim)

\* the row match_document_chunks returns for a chunk (middleware.ts:164-169)
matchRow(q, chunk) ==
    [id |-> chunk.id, document_id |-> chunk.document_id,
     content |-> chunk.content, chunk_index |-> chunk.chunk_index,
     similarity |-> cosineSimilarity(q, chunk.embedding)]

\* the rows of the document that have an embedding, whatever the similarity
matchingRowsNoThreshold(rows, q, doc, threshold) ==
    {matchRow(q, r) : r \in {c \in rows : /\ c.document_id = doc
                                          /\ Len(c.embedding) > 0}}

\* middleware.ts:170-172: the rows of the document whose similarity is above
\* the threshold; a chunk without embedding has none
matchingRows(rows, q, doc, threshold) ==
    {matchRow(q, r) : r \in {c \in rows : /\ c.document_id = doc
                                          /\ Len(c.embedding) > 0
                                          /\ cosineSimilarity(q, c.embedding) > threshold}}

\* middleware.ts:173-174: the results match_document_chunks may give: the
\* matching rows by descending similarity, rows of equal similarity in any
\* order, at most count of them
match_document_chunks(rows, q, doc, threshold, count) ==
    LET M == matchingRows(rows, q, doc, threshold)
        n == Min2(count, Cardinality(M))
    IN {res \in [1..n -> M] :
          /\ \A i, j \in 1..n : i < j => res[i] # res[j]
          /\ \A i, j \in 1..n : i < j => res[i].similarity >= res[j].similarity
          /\ \A m \in M : (\A i \in 1..n : res[i] # m)
                            => \A i \in 1..n : res[i].similarity >= m.similarity}

\* part_002:246-257, buildContext; the string is held as the sequence of its
\* pieces
similarityLabel(chunk) ==
    IF chunk.similarity # 0
    THEN <<" (similarity: ", ToString(chunk.similarity \div 10), ".",
           ToString(chunk.similarity % 10), "%)">>
    ELSE <<>>

contextBlock(chunk) ==
    <<"[Chunk ", ToString(chunk.chunk_index + 1)>> \o similarityLabel(chunk)
    \o <<"]", "\n">> \o <<chunk.content>>

\* Array.prototype.join
RECURSIVE join(_, _)
join(blocks, separator) ==
    IF Len(blocks) = 0 THEN <<>>
    ELSE IF Len(blocks) = 1 THEN blocks[1]
    ELSE blocks[1] \o <<separator>> \o join(Tail(blocks), separator)

buildContext(cs) ==
    IF Len(cs) = 0 THEN <<"No relevant context found.">>
    ELSE join([i \in 1..Len(cs) |-> contextBlock(cs[i])], "\n\n---\n\n")

RetrieveInit ==
    /\ document_chunks \in StoredChunkTables
    /\ documents = {[id |-> DocumentId, user_id |-> SessionUser, chunk_count |-> {}],
                    [id |-> OtherDocumentId, user_id |-> SessionUser, chunk_count |-> {}]}
    /\ nextId = 1
    /\ queryEmbedding \in QueryEmbeddings
    /\ limit \in Limits
    /\ storeAnswers \in StoreAnswers
    /\ relevantChunks = <<>>
    /\ context = <<>>
    /\ rpc = "call"
    /\ ChatIdle
    /\ ConcurrentIdle
    /\ NormIdle
    /\ ChunkIdle
    /\ IngestIdle
    /\ embedService = Null /\ upc = "idle" /\ embeddings = <<>> /\ embI = 0
    /\ outstanding = {} /\ batchEmbeddings = <<>> /\ document = NoDocument
    /\ chunkInserts = <<>> /\ insI = 0
    /\ cleanup = [document |-> "none", chunks |-> "none"]
    /\ response = NoResponse

\* findRelevantChunks (lines 170-239), the results it may return: the rpc
\* result when the store gave one, else the fallback; [] when the fetch gave
\* an error or no row, and from the catch of lines 235-238 when the store
\* threw
findRelevantChunks(answers, rows, q, doc, lim) ==
    IF answers.rpc = "ok"
    THEN match_document_chunks(rows, q, doc, match_threshold, lim)
    ELSE IF answers.fetch = "ok"
    THEN {fallbackChunks(rows, q, doc, lim)}
    ELSE {<<>>}

FindRelevantChunks ==
    /\ rpc = "call"
    /\ relevantChunks' \in
         findRelevantChunks(storeAnswers, document_chunks, queryEmbedding,
                            DocumentId, limit)
    /\ rpc' = "returned"
    /\ UNCHANGED <<queryEmbedding, limit, storeAnswers, context>>
    /\ UNCHANGED <<chunkVars, normVars, storeVars, uploadVars, ingestVars,
                   chatVars, concurrentVars>>

\* buildContext(relevantChunks)
BuildContext ==
    /\ rpc = "returned"
    /\ context' = buildContext(relevantChunks)
    /\ rpc' = "built"
    /\ UNCHANGED <<queryEmbedding, limit, storeAnswers, relevantChunks>>
    /\ UNCHANGED <<chunkVars, normVars, storeVars, uploadVars, ingestVars,
                   chatVars, concurrentVars>>

RetrieveNext == FindRelevantChunks \/ BuildContext

SpecRetrieve == RetrieveInit /\ [][RetrieveNext]_vars

----------------------------------------------------------------------------
(* Claims about findRelevantChunks and buildContext, checked under
   SpecRetrieve *)

\* findRelevantChunks returned and took the fallback path with fetched rows
OnFallbackPath ==
    rpc # "call" /\ storeAnswers.rpc # "ok" /\ storeAnswers.fetch = "ok"

\* the stored chunks of the document asked about
storedChunks == {r \in document_chunks : r.document_id = DocumentId}

C14_FetchFailureSurfaced ==
    (rpc # "call" /\ storeAnswers.fetch \in {"error", "throws"})
    => relevantChunks # <<>>

\* the query vector is orthogonal to the vector of every stored chunk of the
\* document, which has chunks
QueryOrthogonalToAll ==
    /\ storedChunks # {}
    /\ \A r \in storedChunks :
         Len(r.embedding) > 0 /\ dotProduct(queryEmbedding, r.embedding, 1) = 0

\* C15: when the query vector is orthogonal to the vector of every stored
\* chunk, findRelevantChunks returns the empty sequence and buildContext of
\* it is "No relevant context found.".
C15_OrthogonalQueryGivesNoContext ==
    (rpc # "call" /\ QueryOrthogonalToAll)
    => /\ relevantChunks = <<>>
       /\ rpc = "built" => context = <<"No relevant context found.">>

\* C15 as amended: with an orthogonal query, when the store's
\* match_document_chunks answers (threshold 0.7) the result is empty and its
\* context is "No relevant context found."; when the rpc fails and the
\* fallback fetches the rows, the result holds min(limit, number of chunks)
\* chunks of similarity 0 and the context is not that literal.
C15_OrthogonalQueryByPath ==
    (rpc # "call" /\ QueryOrthogonalToAll)
    => /\ storeAnswers.rpc = "ok"
            => /\ relevantChunks = <<>>
               /\ rpc = "built" => context = <<"No relevant context found.">>
       /\ OnFallbackPath
            => /\ Len(relevantChunks) = Min2(limit, Cardinality(storedChunks))
               /\ \A i \in 1..Len(relevantChunks) : relevantChunks[i].similarity = 0
               /\ rpc = "built" => context # <<"No relevant context found.">>

\* the store's function answered a query orthogonal to several chunks, and
\* the context was built
C15_WitnessNativeEmpty ==
    /\ rpc = "built"
    /\ storeAnswers.rpc = "ok"
    /\ QueryOrthogonalToAll
    /\ Cardinality(storedChunks) >= 2
    /\ relevantChunks = <<>>
    /\ context = <<"No relevant context found.">>

\* the block the claim describes for a chunk: the similarity label is there
\* whatever the similarity
labelledBlock(chunk) ==
    <<"[Chunk ", ToString(chunk.chunk_index + 1), " (similarity: ",
      ToString(chunk.similarity \div 10), ".", ToString(chunk.similarity % 10),
      "%)", "]", "\n", chunk.content>>

\* C16: buildContext gives "No relevant context found." for the empty
\* sequence, and for a non-empty one the blocks of its chunks in the order
\* given, each "[Chunk <index+1> (similarity: <pct>%)]", a newline and the
\* content, also for a chunk of similarity 0, joined by "\n\n---\n\n".
C16_ContextBlocksLabelled ==
    rpc = "built"
    => IF Len(relevantChunks) = 0
       THEN context = <<"No relevant context found.">>
       ELSE context = join([i \in 1..Len(relevantChunks) |->
                              labelledBlock(relevantChunks[i])], "\n\n---\n\n")

----------------------------------------------------------------------------
(* The chat POST handler (chat/route.ts:20-250) with streamChatCompletion
   (lib/openai.ts:63-134), and the tables chats and usage it writes *)

\* chat/route.ts:109, the limit given to findRelevantChunks
ChatLimit == 5

\* the text of an upstream error, as a piece of a message
UpstreamText == "<upstream error text>"

\* the chat the request may continue, and the id the store gives a new one
ExistingChatId == 1
NewChatId == 2

\* another user, a document of theirs and a chat of theirs about it; the
\* request may name that chat
OtherUser == "u2"
ForeignDocumentId == 3
ForeignChatId == 3

\* the user's question
Message == <<"q">>

\* the tables before the request
InitialChats ==
    {[id |-> ExistingChatId, document_id |-> DocumentId, user_id |-> SessionUser,
      messages |-> <<[role |-> "user", content |-> <<"q", "0">>],
                     [role |-> "assistant", content |-> <<"r", "0">>]>>],
     [id |-> ForeignChatId, document_id |-> ForeignDocumentId, user_id |-> OtherUser,
      messages |-> <<[role |-> "user", content |-> <<"q", "other">>],
                     [role |-> "assistant", content |-> <<"r", "other">>]>>]}
InitialUsage == 3

\* the texts of the deltas the completion service sends; "LS" is a lone
\* surrogate
DeltaTexts == {<<"a">>, <<"b", "LS">>, <<>>}

\* the events of the service's stream
CompletionEvents ==
    {[type |-> "content_block_delta", text |-> t] : t \in DeltaTexts}
    \cup {[type |-> "message_start", text |-> <<>>]}

\* what the completion service does: it refuses the call, or it sends up to
\* MaxEvents events and then ends the stream or fails with an error whose
\* message names a rate limit, a quota, or neither
Completions ==
    {[create |-> "throws", events |-> <<>>, ending |-> "none"]}
    \cup {[create |-> "ok", events |-> es, ending |-> e] :
            es \in UNION {[1..n -> CompletionEvents] : n \in 0..MaxEvents},
            e \in {"end", "rate limit", "quota", "other"}}

\* TextEncoder.encode: the UTF-8 form, a lone surrogate becoming U+FFFD
encode(t) == [utf8 |-> [i \in 1..Len(t) |-> IF t[i] = "LS" THEN "FFFD" ELSE t[i]]]

\* TextDecoder.decode of a whole encoded text
decode(bytes) == bytes.utf8

\* lib/openai.ts:111-116: the events that are enqueued
isTextDelta(event) == event.type = "content_block_delta" /\ Len(event.text) > 0

\* lib/openai.ts:106-119: the chunks of the ReadableStream streamChatCompletion
\* returns
streamChunks(events) ==
    LET deltas == SelectSeq(events, isTextDelta)
    IN [i \in 1..Len(deltas) |-> encode(deltas[i].text)]

\* a JSON error response
JsonError(status, code, error) ==
    [status |-> status, code |-> code, error |-> error, body |-> "json"]

\* chat/route.ts:234-240
StreamResponse == [status |-> 200, code |-> "", error |-> <<>>, body |-> "stream"]

\* the events enqueued on the response stream
ChunkEvent(chunk) ==
    [type |-> "chunk", chunk |-> chunk, id |-> 0, code |-> "", error |-> <<>>]
ChatIdEvent(id) ==
    [type |-> "chatId", chunk |-> <<>>, id |-> id, code |-> "", error |-> <<>>]
SourcesEvent ==
    [type |-> "sources", chunk |-> <<>>, id |-> 0, code |-> "", error |-> <<>>]
ErrorEvent(code, error) ==
    [type |-> "error", chunk |-> <<>>, id |-> 0, code |-> code, error |-> error]

\* chat/route.ts:216-223
errorMessage(what) ==
    CASE what = "rate limit" ->
           <<"Anthropic API rate limit exceeded. Please try again in a moment.">>
      [] what = "quota" ->
           <<"Anthropic API quota exceeded. Please check your API key limits.">>
      [] OTHER -> <<"Failed to generate AI response. Please try again.">>

\* the test that lets every request through
noRelevantChunksIgnored(cs) == FALSE

\* chat/route.ts:111
noRelevantChunks(cs) == Len(cs) = 0

\* the chunk put before the response collected so far
accumulatePrepended(full, chunk) == chunk \o full

\* chat/route.ts:160: fullResponse += chunk
accumulate(full, chunk) == full \o chunk

\* chat/route.ts:167-171
finalMessages(history, full) ==
    history \o <<[role |-> "user", content |-> Message],
                 [role |-> "assistant", content |-> full]>>

\* chat/route.ts:177-183: update(...).eq('id', id)
updateChat(rows, id, messages) ==
    {IF r.id = id
     THEN [id |-> r.id, document_id |-> r.document_id, user_id |-> r.user_id,
           messages |-> messages]
     ELSE r : r \in rows}

\* chat/route.ts:186-195
insertChat(rows, id, messages) ==
    rows \cup {[id |-> id, document_id |-> DocumentId, user_id |-> SessionUser,
                messages |-> messages]}

\* the chunk tables of the requests explored: no chunk, one chunk, two
ChatChunkTables ==
    {{chunkRow(DocumentId, k - 1, embs[k]) : k \in 1..Len(embs)}
       \cup {chunkRow(OtherDocumentId, 0, <<1, 0>>)} :
     embs \in {<<>>, <<<<0, 1>>>>, <<<<1, 0>>, <<3, 4>>>>}}

ChatInit ==
    /\ documents = {[id |-> DocumentId, user_id |-> SessionUser, chunk_count |-> {}],
                    [id |-> OtherDocumentId, user_id |-> SessionUser, chunk_count |-> {}]}
    /\ document_chunks \in ChatChunkTables
    /\ nextId = 1
    /\ chats = InitialChats
    /\ usageCount = InitialUsage
    /\ storeAnswers \in StoreAnswers
    /\ queryEmbedding = <<>>
    /\ limit = ChatLimit
    /\ relevantChunks = <<>>
    /\ context = <<>>
    /\ rpc = "idle"
    /\ chatId = 0
    /\ chatHistory = <<>>
    /\ completion = [create |-> "none", events |-> <<>>, ending |-> "none"]
    /\ readCount = 0
    /\ value = encode(<<>>)
    /\ fullResponse = <<>>
    /\ sent = <<>>
    /\ responseStream = "none"
    /\ endOfStream = FALSE
    /\ abortedEarly = FALSE
    /\ completionCalls = 0
    /\ newChat = 0
    /\ caught = "none"
    /\ chatResponse = NoChatResponse
    /\ qpc = "authenticate"
    /\ ConcurrentIdle
    /\ NormIdle
    /\ ChunkIdle
    /\ IngestIdle
    /\ embedService = Null /\ upc = "idle" /\ embeddings = <<>> /\ embI = 0
    /\ outstanding = {} /\ batchEmbeddings = <<>> /\ document = NoDocument
    /\ chunkInserts = <<>> /\ insI = 0
    /\ cleanup = [document |-> "none", chunks |-> "none"]
    /\ response = NoResponse

\* what no action of the chat POST changes
chatFrame == <<chunkVars, normVars, documents, document_chunks, nextId,
               uploadVars, ingestVars, limit, storeAnswers, concurrentVars>>

\* chat/route.ts:22-29
Authenticate ==
    /\ qpc = "authenticate"
    /\ \E session \in BOOLEAN :
         IF session
         THEN qpc' = "validate" /\ UNCHANGED chatResponse
         ELSE /\ chatResponse' = JsonError(401, "", <<"Authentication required">>)
              /\ qpc' = "done"
    /\ UNCHANGED <<chatFrame, queryEmbedding, relevantChunks, context, rpc,
                   chats, usageCount, chatId, chatHistory, completion,
                   readCount, value, fullResponse, sent, responseStream,
                   endOfStream, abortedEarly, completionCalls, newChat, caught>>

\* chat/route.ts:31-69: the body is read and validated
ValidateInput ==
    /\ qpc = "validate"
    /\ \E valid \in BOOLEAN, id \in {0, ExistingChatId, ForeignChatId} :
         /\ chatId' = id
         /\ IF valid
            THEN qpc' = "limit" /\ UNCHANGED chatResponse
            ELSE /\ chatResponse' = JsonError(400, "", <<"Invalid message">>)
                 /\ qpc' = "done"
    /\ UNCHANGED <<chatFrame, queryEmbedding, relevantChunks, context, rpc,
                   chats, usageCount, chatHistory, completion,
                   readCount, value, fullResponse, sent, responseStream,
                   endOfStream, abortedEarly, completionCalls, newChat, caught>>

\* chat/route.ts:71-82
CheckChatLimit ==
    /\ qpc = "limit"
    /\ \E allowed \in BOOLEAN :
         IF allowed
         THEN qpc' = "document" /\ UNCHANGED chatResponse
         ELSE /\ chatResponse' =
                   JsonError(429, "RATE_LIMIT_EXCEEDED", <<"Chat limit reached">>)
              /\ qpc' = "done"
    /\ UNCHANGED <<chatFrame, queryEmbedding, relevantChunks, context, rpc,
                   chats, usageCount, chatId, chatHistory, completion,
                   readCount, value, fullResponse, sent, responseStream,
                   endOfStream, abortedEarly, completionCalls, newChat, caught>>

\* chat/route.ts:87-103
GetDocument ==
    /\ qpc = "document"
    /\ \E answer \in {"ok", "error"} :
         IF /\ answer = "ok"
            /\ \E d \in documents : d.id = DocumentId /\ d.user_id = SessionUser
         THEN qpc' = "embed" /\ UNCHANGED chatResponse
         ELSE /\ chatResponse' =
                   JsonError(404, "DOCUMENT_NOT_FOUND",
                             <<"Document not found or you do not have access to it">>)
              /\ qpc' = "done"
    /\ UNCHANGED <<chatFrame, queryEmbedding, relevantChunks, context, rpc,
                   chats, usageCount, chatId, chatHistory, completion,
                   readCount, value, fullResponse, sent, responseStream,
                   endOfStream, abortedEarly, completionCalls, newChat, caught>>

\* chat/route.ts:105-106 with lib/openai.ts:35-55: the embedding of the
\* message, or the Error generateEmbedding throws, whose message holds the
\* upstream text and which the catch of lines 241-248 answers
GenerateQueryEmbedding ==
    /\ qpc = "embed"
    /\ \/ /\ queryEmbedding' = <<1, 0>>
          /\ qpc' = "retrieve"
          /\ UNCHANGED chatResponse
       \/ /\ chatResponse' =
               JsonError(500, "", <<"Failed to generate embedding: ", UpstreamText>>)
          /\ qpc' = "done"
          /\ UNCHANGED queryEmbedding
    /\ UNCHANGED <<chatFrame, relevantChunks, context, rpc,
                   chats, usageCount, chatId, chatHistory, completion,
                   readCount, value, fullResponse, sent, responseStream,
                   endOfStream, abortedEarly, completionCalls, newChat, caught>>

\* chat/route.ts:108-109
ChatFindRelevantChunks ==
    /\ qpc = "retrieve"
    /\ relevantChunks' \in
         findRelevantChunks(storeAnswers, document_chunks, queryEmbedding,
                            DocumentId, ChatLimit)
    /\ rpc' = "returned"
    /\ qpc' = "check"
    /\ UNCHANGED <<chatFrame, queryEmbedding, context,
                   chats, usageCount, chatId, chatHistory, completion,
                   readCount, value, fullResponse, sent, responseStream,
                   endOfStream, abortedEarly, completionCalls, newChat, caught,
                   chatResponse>>

\* chat/route.ts:111-124
CheckRelevantChunks ==
    /\ qpc = "check"
    /\ IF noRelevantChunks(relevantChunks)
       THEN /\ chatResponse' =
                 JsonError(400, "NO_RELEVANT_CONTENT",
                           <<"No relevant content found in document.">>)
            /\ qpc' = "done"
            /\ UNCHANGED <<context, rpc>>
       ELSE /\ context' = buildContext(relevantChunks)
            /\ rpc' = "built"
            /\ qpc' = "history"
            /\ UNCHANGED chatResponse
    /\ UNCHANGED <<chatFrame, queryEmbedding, relevantChunks,
                   chats, usageCount, chatId, chatHistory, completion,
                   readCount, value, fullResponse, sent, responseStream,
                   endOfStream, abortedEarly, completionCalls, newChat, caught>>

\* chat/route.ts:126-139
GetChatHistory ==
    /\ qpc = "history"
    /\ IF chatId # 0
       THEN \E answer \in {"ok", "error"} :
              IF answer = "ok" /\ \E c \in chats : c.id = chatId /\ c.user_id = SessionUser
              THEN chatHistory' =
                     (CHOOSE c \in chats : c.id = chatId /\ c.user_id = SessionUser).messages
              ELSE chatHistory' = <<>>
       ELSE chatHistory' = <<>>
    /\ qpc' = "start"
    /\ UNCHANGED <<chatFrame, queryEmbedding, relevantChunks, context, rpc,
                   chats, usageCount, chatId, completion,
                   readCount, value, fullResponse, sent, responseStream,
                   endOfStream, abortedEarly, completionCalls, newChat, caught,
                   chatResponse>>

\* chat/route.ts:141-153 and 234-240: the response stream is created, start
\* calls streamChatCompletion, the Response is returned
StartStream ==
    /\ qpc = "start"
    /\ completion' \in Completions
    /\ completionCalls' = completionCalls + 1
    /\ responseStream' = "readable"
    /\ chatResponse' = StreamResponse
    /\ IF completion'.create = "throws"
       THEN caught' = "other" /\ qpc' = "catch"
       ELSE caught' = caught /\ qpc' = "reading"
    /\ UNCHANGED <<chatFrame, queryEmbedding, relevantChunks, context, rpc,
                   chats, usageCount, chatId, chatHistory,
                   readCount, value, fullResponse, sent,
                   endOfStream, abortedEarly, newChat>>

\* chat/route.ts:156-157: reader.read() returns the next chunk, or done, or
\* rejects with the error of the service
ReadFragment ==
    /\ qpc = "reading"
    /\ LET streamed == streamChunks(completion.events)
       IN IF readCount < Len(streamed)
          THEN /\ value' = streamed[readCount + 1]
               /\ readCount' = readCount + 1
               /\ qpc' = "forwarding"
               /\ UNCHANGED <<endOfStream, caught>>
          ELSE IF completion.ending = "end"
          THEN /\ endOfStream' = TRUE
               /\ qpc' = "persist"
               /\ UNCHANGED <<value, readCount, caught>>
          ELSE /\ caught' = completion.ending
               /\ qpc' = "catch"
               /\ UNCHANGED <<value, readCount, endOfStream>>
    /\ UNCHANGED <<chatFrame, queryEmbedding, relevantChunks, context, rpc,
                   chats, usageCount, chatId, chatHistory, completion,
                   fullResponse, sent, responseStream,
                   abortedEarly, completionCalls, newChat, chatResponse>>

\* chat/route.ts:159-163: the chunk is decoded, added to fullResponse and
\* enqueued; enqueue throws when the response stream is not readable
ForwardFragment ==
    /\ qpc = "forwarding"
    /\ fullResponse' = accumulate(fullResponse, decode(value))
    /\ IF responseStream = "readable"
       THEN /\ sent' = Append(sent, ChunkEvent(decode(value)))
            /\ qpc' = "reading"
            /\ UNCHANGED caught
       ELSE /\ caught' = "other"
            /\ qpc' = "catch"
            /\ UNCHANGED sent
    /\ UNCHANGED <<chatFrame, queryEmbedding, relevantChunks, context, rpc,
                   chats, usageCount, chatId, chatHistory, completion,
                   readCount, value, responseStream,
                   endOfStream, abortedEarly, completionCalls, newChat,
                   chatResponse>>

\* chat/route.ts:166-195: the chat row is updated or inserted; the store
\* carries the write out or answers an error, which is not looked at
PersistChat ==
    /\ qpc = "persist"
    /\ \E answer \in {"ok", "error"} :
         IF answer = "error"
         THEN UNCHANGED <<chats, newChat>>
         ELSE IF chatId # 0
         THEN /\ chats' = updateChat(chats, chatId,
                                     finalMessages(chatHistory, fullResponse))
              /\ UNCHANGED newChat
         ELSE /\ chats' = insertChat(chats, NewChatId,
                                     finalMessages(chatHistory, fullResponse))
              /\ newChat' = NewChatId
    /\ qpc' = "sources"
    /\ UNCHANGED <<chatFrame, queryEmbedding, relevantChunks, context, rpc,
                   usageCount, chatId, chatHistory, completion,
                   readCount, value, fullResponse, sent, responseStream,
                   endOfStream, abortedEarly, completionCalls, caught,
                   chatResponse>>

\* chat/route.ts:197-208: the chat id of a new chat and the sources are
\* enqueued
SendSources ==
    /\ qpc = "sources"
    /\ IF responseStream = "readable"
       THEN /\ sent' = (IF newChat # 0 THEN Append(sent, ChatIdEvent(newChat))
                        ELSE sent) \o <<SourcesEvent>>
            /\ qpc' = "increment"
            /\ UNCHANGED caught
       ELSE /\ caught' = "other"
            /\ qpc' = "catch"
            /\ UNCHANGED sent
    /\ UNCHANGED <<chatFrame, queryEmbedding, relevantChunks, context, rpc,
                   chats, usageCount, chatId, chatHistory, completion,
                   readCount, value, fullResponse, responseStream,
                   endOfStream, abortedEarly, completionCalls, newChat,
                   chatResponse>>

\* chat/route.ts:210-211 with lib/rate-limit.ts:212-265
IncrementChatCount ==
    /\ qpc = "increment"
    /\ \/ /\ usageCount' = usageCount + 1
          /\ qpc' = "close"
          /\ UNCHANGED caught
       \/ /\ caught' = "other"
          /\ qpc' = "catch"
          /\ UNCHANGED usageCount
    /\ UNCHANGED <<chatFrame, queryEmbedding, relevantChunks, context, rpc,
                   chats, chatId, chatHistory, completion,
                   readCount, value, fullResponse, sent, responseStream,
                   endOfStream, abortedEarly, completionCalls, newChat,
                   chatResponse>>

\* chat/route.ts:213: controller.close(), which throws when the response
\* stream is not readable
CloseStream ==
    /\ qpc = "close"
    /\ IF responseStream = "readable"
       THEN responseStream' = "closed" /\ qpc' = "done" /\ UNCHANGED caught
       ELSE caught' = "other" /\ qpc' = "catch" /\ UNCHANGED responseStream
    /\ UNCHANGED <<chatFrame, queryEmbedding, relevantChunks, context, rpc,
                   chats, usageCount, chatId, chatHistory, completion,
                   readCount, value, fullResponse, sent,
                   endOfStream, abortedEarly, completionCalls, newChat,
                   chatResponse>>

\* chat/route.ts:214-230: the error event is enqueued and the stream closed;
\* when the response stream is not readable the enqueue throws out of start
CatchStreamError ==
    /\ qpc = "catch"
    /\ IF responseStream = "readable"
       THEN /\ sent' = Append(sent, ErrorEvent("STREAM_ERROR", errorMessage(caught)))
            /\ responseStream' = "closed"
       ELSE UNCHANGED <<sent, responseStream>>
    /\ qpc' = "done"
    /\ UNCHANGED <<chatFrame, queryEmbedding, relevantChunks, context, rpc,
                   chats, usageCount, chatId, chatHistory, completion,
                   readCount, value, fullResponse,
                   endOfStream, abortedEarly, completionCalls, newChat, caught,
                   chatResponse>>

\* the client aborts the request while the handler awaits the completion
\* stream or the store: the response stream is cancelled; the handler has no
\* cancel callback and does not look at request.signal
AbortRequest ==
    /\ qpc \in {"reading", "persist", "increment"}
    /\ responseStream = "readable"
    /\ responseStream' = "cancelled"
    /\ abortedEarly' = ~endOfStream
    /\ UNCHANGED <<chatFrame, queryEmbedding, relevantChunks, context, rpc,
                   chats, usageCount, chatId, chatHistory, completion,
                   readCount, value, fullResponse, sent,
                   endOfStream, completionCalls, newChat, caught,
                   chatResponse, qpc>>

ChatNext ==
    \/ Authenticate
    \/ ValidateInput
    \/ CheckChatLimit
    \/ GetDocument
    \/ GenerateQueryEmbedding
    \/ ChatFindRelevantChunks
    \/ CheckRelevantChunks
    \/ GetChatHistory
    \/ StartStream
    \/ ReadFragment
    \/ ForwardFragment
    \/ PersistChat
    \/ SendSources
    \/ IncrementChatCount
    \/ CloseStream
    \/ CatchStreamError
    \/ AbortRequest

SpecChat == ChatInit /\ [][ChatNext]_vars

----------------------------------------------------------------------------
(* Claims about the chat POST, checked under SpecChat *)

\* the fragments forwarded to the caller so far, in the order sent
isChunkEvent(event) == event.type = "chunk"
forwarded ==
    LET events == SelectSeq(sent, isChunkEvent)
    IN [i \in 1..Len(events) |-> events[i].chunk]

\* the chat rows this request wrote
writtenChats == chats \ InitialChats

\* C17: when retrieval yields zero chunks the request ends with the
\* NO_RELEVANT_CONTENT outcome: the completion service is never called, no
\* chat row is inserted or updated, and the usage count is not incremented.
C17_NoRelevantContentIsTerminal ==
    (rpc # "idle" /\ Len(relevantChunks) = 0)
    => /\ completionCalls = 0
       /\ responseStream = "none"
       /\ chats = InitialChats
       /\ usageCount = InitialUsage
       /\ qpc \in {"check", "done"}
       /\ qpc = "done" => chatResponse.code = "NO_RELEVANT_CONTENT"

\* the store's function found no chunk above the threshold in a document
\* that has chunks, and the request ended
C17_WitnessNoMatchEnded ==
    /\ qpc = "done"
    /\ chatResponse.code = "NO_RELEVANT_CONTENT"
    /\ storeAnswers.rpc = "ok"
    /\ \E r \in document_chunks : r.document_id = DocumentId
    /\ completionCalls = 0
    /\ chats = InitialChats

\* C18: every fragment read from the completion stream is forwarded before
\* the next one is read, the fragments are forwarded in the order they were
\* generated, and when the stream ended normally the assistant content that
\* is persisted is the concatenation, in order, of the forwarded fragments.
C18_FragmentsForwardedInOrder ==
    /\ [](/\ Len(forwarded) <= readCount
          /\ \A i \in 1..Len(forwarded) :
               forwarded[i] = decode(streamChunks(completion.events)[i])
          /\ \A c \in writtenChats :
               /\ endOfStream
               /\ c.messages[Len(c.messages)].role = "assistant"
               /\ c.messages[Len(c.messages)].content = Concat(forwarded))
    /\ [][readCount' # readCount => Len(forwarded) = readCount]_vars

\* a stream of two different fragments ended normally and the chat row was
\* written
C18_WitnessTwoFragmentsPersisted ==
    /\ endOfStream
    /\ Len(forwarded) = 2
    /\ forwarded[1] # forwarded[2]
    /\ writtenChats # {}
    /\ qpc = "done"

\* C19: the chat POST writes a chat row only after the completion stream
\* signalled its end; when the stream fails, or the request is aborted
\* before the end of the stream, no assistant turn is persisted and the chat
\* store is as it was before the request.
C19_NoPersistenceBeforeStreamEnd ==
    /\ ~endOfStream => chats = InitialChats
    /\ abortedEarly => chats = InitialChats

\* an error outcome with a machine-readable code and a message that does not
\* hold the upstream error text
codedAndRemapped(outcome) ==
    /\ outcome.code # ""
    /\ Len(outcome.error) > 0
    /\ \A i \in 1..Len(outcome.error) : outcome.error[i] # UpstreamText

\* C20: every error outcome of answering a query, the JSON error responses
\* and the error event sent on the stream, carries a machine-readable code
\* and a human-readable message, and the message of a failure of an upstream
\* service never holds the upstream error text.
C20_ErrorsCodedAndRemapped ==
    /\ chatResponse.status >= 400 => codedAndRemapped(chatResponse)
    /\ \A i \in 1..Len(sent) :
         sent[i].type = "error" => codedAndRemapped(sent[i])

\* the terminal events of a response stream
isTerminalEvent(event) == event.type \in {"sources", "error"}

\* C24: every response stream of a chat POST ends with exactly one terminal
\* event, the final event {sources, done: true} or an error event: nothing is
\* emitted after a terminal event, also when the increment of the usage count
\* fails after the chat was saved, and a closed stream ends with one.
C24_OneTerminalEvent ==
    /\ \A i \in 1..(Len(sent) - 1) : ~isTerminalEvent(sent[i])
    /\ responseStream = "closed"
         => (Len(sent) > 0 /\ isTerminalEvent(sent[Len(sent)]))

\* the call processDocument makes: chunkText(cleanedText, 1000, 200)
ingestParameters ==
    maxChunkSize = IngestMaxChunkSize /\ overlap = IngestOverlap

\* C25: with maxSize = 1000 and overlap = 200 the cursor start is never
\* negative and strictly increases at every iteration, wherever the periods
\* and the paragraph breaks of the text are; chunkText then returns, with at
\* least one chunk for a text processDocument accepts (trimmed, at least
\* MinTextLength characters).
C25_CursorAdvancesAtIngestParameters ==
    /\ [](ingestParameters => start >= 0)
    /\ [][(ingestParameters /\ iter' = iter + 1) => start' > start]_vars
    /\ []((ingestParameters /\ cpc = "done" /\ text = trim(text)
             /\ Len(text) >= MinTextLength)
          => Len(chunks) >= 1)

\* chunkText returned after several iterations, the first slice cut at a
\* period or a paragraph break
C25_WitnessReturnedAfterBoundaryCut ==
    /\ ingestParameters
    /\ cpc = "done"
    /\ Len(slices) >= 3
    /\ slices[1][2] < IngestMaxChunkSize
    /\ Len(chunks) >= 1

\* the stored chunks of the document that come first by chunk index, n at most
firstByIndex(n) ==
    {r \in storedChunks :
        Cardinality({o \in storedChunks : o.chunk_index < r.chunk_index}) < n}

\* relevantChunks holds the min(limit, |pool|) most similar chunks of pool
mostSimilarOf(pool) ==
    LET returned == {relevantChunks[i].chunk_index : i \in 1..Len(relevantChunks)}
    IN /\ Len(relevantChunks) = Min2(limit, Cardinality(pool))
       /\ Cardinality(returned) = Len(relevantChunks)
       /\ returned \subseteq {r.chunk_index : r \in pool}
       /\ \A r \in pool :
            r.chunk_index \notin returned
            => \A i \in 1..Len(relevantChunks) :
                 cosineSimilarity(queryEmbedding, r.embedding)
                    <= relevantChunks[i].similarity

\* C26 as stated: on the fallback path findRelevantChunks returns the limit
\* chunks of highest cosine similarity among all chunks of the document, also
\* when the document has more than 2 * limit chunks.
C26_MostSimilarOfAllChunks ==
    OnFallbackPath => mostSimilarOf(storedChunks)

\* C26: on the fallback path findRelevantChunks returns the limit chunks of
\* highest cosine similarity among the first 2 * limit chunks of the document
\* by chunk index; a chunk of a later index is never part of the result.
C26_MostSimilarOfFirstTwoLimit ==
    OnFallbackPath => mostSimilarOf(firstByIndex(2 * limit))

\* the fallback returned a chunk although a chunk behind the first
\* 2 * limit is more similar to the query
C26_WitnessBetterChunkBeyondFetch ==
    /\ OnFallbackPath
    /\ Len(relevantChunks) = limit
    /\ \E r \in storedChunks \ firstByIndex(2 * limit) :
         \A i \in 1..Len(relevantChunks) :
            cosineSimilarity(queryEmbedding, r.embedding)
               > relevantChunks[i].similarity

\* C27: a chat POST of user U never inserts or modifies a chat row owned by
\* another user: whatever chatId the request supplies, the rows of other
\* users are as they were before the request, and every row the request
\* wrote belongs to U and to the requested document.
C27_OnlyOwnChatsWritten ==
    /\ \A c \in chats : c.user_id # SessionUser => c \in InitialChats
    /\ \A c \in writtenChats :
         c.user_id = SessionUser /\ c.document_id = DocumentId

----------------------------------------------------------------------------
(* Requests of one user that run at the same time: chat POSTs
   (chat/route.ts) and upload POSTs (unnamed/part_003) with the limits and
   the usage counter of lib/rate-limit.ts. Every step is one await on the
   store, or the part of a handler between two of them. *)

\* the number of requests in flight
MaxRequests == 2
RequestIds == 1..MaxRequests

\* lib/rate-limit.ts:6-9
CHATS_PER_MONTH == 3
DOCUMENTS_TOTAL == 3

\* body.message of request r and the response generated for it
question(r) == <<"q", ToString(r)>>
answer(r) == <<"r", ToString(r)>>

\* a row of table usage for the current period
InitialUsageId == 1
usageRow(id, count) == [id |-> id, user_id |-> SessionUser, chats_count |-> count]

\* .single(): data is the row when exactly one row matches, else null
single(rows) == IF Cardinality(rows) = 1 THEN rows ELSE {}

\* lib/rate-limit.ts:26-43 and 222-229: the usage row of the user in the
\* current period, null when the query gives an error
getCurrentUsage(rows, result) ==
    IF result = "ok" THEN single({u \in rows : u.user_id = SessionUser}) ELSE {}

\* usage?.chats_count || 0 (lib/rate-limit.ts:135)
currentChats(existing) ==
    IF existing = {} THEN 0 ELSE (CHOOSE u \in existing : TRUE).chats_count

\* lib/rate-limit.ts:60-79: the count of the user's documents, 0 when the
\* query gives an error
getDocumentCount(docs, result) ==
    IF result = "ok"
    THEN Cardinality({d \in docs : d.user_id = SessionUser})
    ELSE 0

\* lib/rate-limit.ts:120-160, allowed
checkChatLimit(pro, rows, result) ==
    pro \/ currentChats(getCurrentUsage(rows, result)) < CHATS_PER_MONTH

\* lib/rate-limit.ts:167-206, allowed
checkDocumentLimit(pro, docs, result) ==
    pro \/ getDocumentCount(docs, result) < DOCUMENTS_TOTAL

\* chat/route.ts:167-171 for request r
requestMessages(history, r) ==
    history \o <<[role |-> "user", content |-> question(r)],
                 [role |-> "assistant", content |-> answer(r)]>>

\* chat/route.ts:186-195: the row inserted for a new chat
newChatRow(id, messages) ==
    [id |-> id, document_id |-> DocumentId, user_id |-> SessionUser,
     messages |-> messages]

\* lib/rate-limit.ts:233-238: update({chats_count}).eq('id', id)
updateUsage(rows, id, count) ==
    {IF u.id = id THEN usageRow(u.id, count) ELSE u : u \in rows}

\* a request at its start
Request(kind, id) ==
    [kind |-> kind, pc |-> "limit", chatId |-> id, chatHistory |-> <<>>,
     existingUsage |-> {}, saved |-> FALSE, done |-> FALSE, document |-> 0]

\* the documents the user has before the requests
InitialDocuments ==
    {[id |-> k, user_id |-> SessionUser, chunk_count |-> {1}] :
       k \in 1..(DOCUMENTS_TOTAL - 1)}

ConcurrentInit ==
    /\ requests \in [RequestIds ->
                       {Request("upload", 0), Request("chat", 0),
                        Request("chat", ExistingChatId)}]
    /\ usage \in {{}, {usageRow(InitialUsageId, CHATS_PER_MONTH - 1)}}
    /\ isPro \in BOOLEAN
    /\ documents = InitialDocuments
    /\ document_chunks = {}
    /\ nextId = 4
    /\ chats = InitialChats
    /\ usageCount = 0 /\ chatId = 0 /\ chatHistory = <<>>
    /\ completion = [create |-> "none", events |-> <<>>, ending |-> "none"]
    /\ readCount = 0 /\ value = <<>> /\ fullResponse = <<>> /\ sent = <<>>
    /\ responseStream = "none" /\ endOfStream = FALSE /\ abortedEarly = FALSE
    /\ completionCalls = 0 /\ newChat = 0 /\ caught = "none"
    /\ chatResponse = NoChatResponse /\ qpc = "idle"
    /\ embedService = Null /\ upc = "idle" /\ embeddings = <<>> /\ embI = 0
    /\ outstanding = {} /\ batchEmbeddings = <<>> /\ document = Null
    /\ chunkInserts = <<>> /\ insI = 0
    /\ cleanup = [document |-> "none", chunks |-> "none"]
    /\ response = Null
    /\ NormIdle
    /\ ChunkIdle
    /\ IngestIdle
    /\ RetrieveIdle

\* what no step of the concurrent requests changes
concurrentFrame ==
    <<chunkVars, normVars, document_chunks, uploadVars, ingestVars,
      retrieveVars, usageCount, chatId, chatHistory, completion, readCount,
      value, fullResponse, sent, responseStream, endOfStream, abortedEarly,
      completionCalls, newChat, caught, chatResponse, qpc>>

\* chat/route.ts:71-82: checkChatLimit; 429 when not allowed
ConcurrentCheckChatLimit ==
    \E r \in RequestIds, result \in {"ok", "error"} :
        /\ requests[r].kind = "chat"
        /\ requests[r].pc = "limit"
        /\ requests' = [requests EXCEPT ![r].pc =
                          IF checkChatLimit(isPro, usage, result)
                          THEN "history" ELSE "end"]
        /\ UNCHANGED <<documents, chats, nextId, usage, isPro, concurrentFrame>>

\* chat/route.ts:84-139: the document, the embedding of the message and the
\* relevant chunks are got, or the request ends with an error response; then
\* the history of the chat is read
ConcurrentGetChatHistory ==
    \E r \in RequestIds, went \in {"ok", "error"} :
        /\ requests[r].kind = "chat"
        /\ requests[r].pc = "history"
        /\ LET own == {c \in chats : c.id = requests[r].chatId
                                      /\ c.user_id = SessionUser}
           IN requests' =
                IF went = "error" THEN [requests EXCEPT ![r].pc = "end"]
                ELSE [requests EXCEPT
                        ![r].pc = "stream",
                        ![r].chatHistory =
                            IF requests[r].chatId # 0 /\ own # {}
                            THEN (CHOOSE c \in own : TRUE).messages
                            ELSE <<>>]
        /\ UNCHANGED <<documents, chats, nextId, usage, isPro, concurrentFrame>>

\* chat/route.ts:141-164 and 214-230: the completion is streamed to its end,
\* or it fails and the error event ends the response
ConcurrentStream ==
    \E r \in RequestIds, went \in {"ok", "error"} :
        /\ requests[r].kind = "chat"
        /\ requests[r].pc = "stream"
        /\ requests' = [requests EXCEPT ![r].pc =
                          IF went = "ok" THEN "persist" ELSE "end"]
        /\ UNCHANGED <<documents, chats, nextId, usage, isPro, concurrentFrame>>

\* chat/route.ts:166-195: the chat row is updated or inserted; an error of
\* the store is not looked at
ConcurrentPersistChat ==
    \E r \in RequestIds, result \in {"ok", "error"} :
        /\ requests[r].kind = "chat"
        /\ requests[r].pc = "persist"
        /\ LET messages == requestMessages(requests[r].chatHistory, r)
           IN IF result = "error"
              THEN UNCHANGED <<chats, nextId>>
              ELSE IF requests[r].chatId # 0
              THEN /\ chats' = updateChat(chats, requests[r].chatId, messages)
                   /\ UNCHANGED nextId
              ELSE /\ chats' = chats \cup {newChatRow(nextId, messages)}
                   /\ nextId' = nextId + 1
        /\ requests' = [requests EXCEPT ![r].pc = "sources",
                                        ![r].saved = (result = "ok")]
        /\ UNCHANGED <<documents, usage, isPro, concurrentFrame>>

\* chat/route.ts:197-208: the done event is enqueued
ConcurrentSendSources ==
    \E r \in RequestIds :
        /\ requests[r].kind = "chat"
        /\ requests[r].pc = "sources"
        /\ requests' = [requests EXCEPT ![r].pc = "read_usage", ![r].done = TRUE]
        /\ UNCHANGED <<documents, chats, nextId, usage, isPro, concurrentFrame>>

\* incrementChatCount, lib/rate-limit.ts:222-229: existingUsage is read; the
\* error of the query is not looked at
ConcurrentReadUsage ==
    \E r \in RequestIds, result \in {"ok", "error"} :
        /\ requests[r].kind = "chat"
        /\ requests[r].pc = "read_usage"
        /\ requests' = [requests EXCEPT
                          ![r].pc = "write_usage",
                          ![r].existingUsage = getCurrentUsage(usage, result)]
        /\ UNCHANGED <<documents, chats, nextId, usage, isPro, concurrentFrame>>

\* incrementChatCount, lib/rate-limit.ts:231-257: the row read is updated to
\* its count plus one, or a row with count 1 is inserted; an error of the
\* store is thrown, and the handler sends the error event
ConcurrentWriteUsage ==
    \E r \in RequestIds, result \in {"ok", "error"} :
        /\ requests[r].kind = "chat"
        /\ requests[r].pc = "write_usage"
        /\ LET existing == requests[r].existingUsage
           IN IF result = "error"
              THEN UNCHANGED <<usage, nextId>>
              ELSE IF existing # {}
              THEN /\ usage' = updateUsage(usage,
                                  (CHOOSE u \in existing : TRUE).id,
                                  currentChats(existing) + 1)
                   /\ UNCHANGED nextId
              ELSE /\ usage' = usage \cup {usageRow(nextId, 1)}
                   /\ nextId' = nextId + 1
        /\ requests' = [requests EXCEPT ![r].pc = "end"]
        /\ UNCHANGED <<documents, chats, isPro, concurrentFrame>>

\* unnamed/part_003:23-30: checkDocumentLimit; 403 when not allowed
ConcurrentCheckDocumentLimit ==
    \E r \in RequestIds, result \in {"ok", "error"} :
        /\ requests[r].kind = "upload"
        /\ requests[r].pc = "limit"
        /\ requests' = [requests EXCEPT ![r].pc =
                          IF checkDocumentLimit(isPro, documents, result)
                          THEN "insert_document" ELSE "end"]
        /\ UNCHANGED <<documents, chats, nextId, usage, isPro, concurrentFrame>>

\* unnamed/part_003:32-199: the file is checked and processed and the
\* embeddings are generated, then the document row is inserted; or one of
\* these fails and the request ends with an error response
ConcurrentInsertDocument ==
    \E r \in RequestIds, went \in {"ok", "error"} :
        /\ requests[r].kind = "upload"
        /\ requests[r].pc = "insert_document"
        /\ IF went = "error"
           THEN /\ requests' = [requests EXCEPT ![r].pc = "end"]
                /\ UNCHANGED <<documents, nextId>>
           ELSE /\ documents' = documents \cup
                     {[id |-> nextId, user_id |-> SessionUser, chunk_count |-> {1}]}
                /\ nextId' = nextId + 1
                /\ requests' = [requests EXCEPT ![r].pc = "insert_chunks",
                                                ![r].document = nextId]
        /\ UNCHANGED <<chats, usage, isPro, concurrentFrame>>

\* unnamed/part_003:201-276: the chunk rows are inserted and the request
\* succeeds; or the embeddings are refused (the document row stays), or a
\* batch fails and the document row is deleted
ConcurrentInsertChunks ==
    \E r \in RequestIds, went \in {"ok", "invalid", "batch_error"} :
        /\ requests[r].kind = "upload"
        /\ requests[r].pc = "insert_chunks"
        /\ IF went = "batch_error"
           THEN documents' = deleteDocument(documents, requests[r].document)
           ELSE UNCHANGED documents
        /\ requests' = [requests EXCEPT ![r].pc = "end"]
        /\ UNCHANGED <<chats, nextId, usage, isPro, concurrentFrame>>

ConcurrentNext ==
    \/ ConcurrentCheckChatLimit
    \/ ConcurrentGetChatHistory
    \/ ConcurrentStream
    \/ ConcurrentPersistChat
    \/ ConcurrentSendSources
    \/ ConcurrentReadUsage
    \/ ConcurrentWriteUsage
    \/ ConcurrentCheckDocumentLimit
    \/ ConcurrentInsertDocument
    \/ ConcurrentInsertChunks

SpecConcurrent == ConcurrentInit /\ [][ConcurrentNext]_vars

----------------------------------------------------------------------------
(* Claims about concurrent requests, checked under SpecConcurrent *)

\* every request has ended
allEnded == \A r \in RequestIds : requests[r].pc = "end"

\* the chat requests that reached the done event
completedChats ==
    {r \in RequestIds : requests[r].kind = "chat" /\ requests[r].done}

\* the turns of request r are part of the transcript
holdsTurns(messages, r) ==
    /\ \E i \in 1..Len(messages) :
         messages[i] = [role |-> "user", content |-> question(r)]
    /\ \E i \in 1..Len(messages) :
         messages[i] = [role |-> "assistant", content |-> answer(r)]

\* C28: when two chat POSTs for the same chatId run concurrently and both
\* complete, their transcript writes carried out, the stored transcript of
\* that chat holds the user turn and the assistant turn of both requests,
\* under every interleaving of their history reads and transcript writes.
C28_NoTurnLost ==
    (/\ allEnded
     /\ \A r \in RequestIds :
          /\ requests[r].chatId = ExistingChatId
          /\ requests[r].saved
          /\ requests[r].done)
    => \A c \in chats :
         c.id = ExistingChatId
         => \A r \in RequestIds : holdsTurns(c.messages, r)

\* C29: a free-tier user never owns more than DOCUMENTS_TOTAL documents:
\* when all concurrent upload POSTs of the user have ended, also when the
\* document count query failed, at most DOCUMENTS_TOTAL rows of the user
\* remain.
C29_DocumentLimitKept ==
    (allEnded /\ ~isPro)
    => Cardinality({d \in documents : d.user_id = SessionUser}) <= DOCUMENTS_TOTAL

\* the chat queries of the period counted before the requests
priorChats ==
    IF \E u \in usage : u.id = InitialUsageId THEN CHATS_PER_MONTH - 1 ELSE 0

\* C30: the usage counter is exact: when the chat POSTs of the user have
\* ended there is exactly one usage row for the user and the period, its
\* chats_count is the number of chat queries that reached the done event, and
\* a free-tier user has completed at most CHATS_PER_MONTH queries.
C30_UsageCounterExact ==
    allEnded
    => LET completed == priorChats + Cardinality(completedChats)
       IN /\ completed > 0
               => \E u \in usage : usage = {u} /\ u.chats_count = completed
          /\ ~isPro => completed <= CHATS_PER_MONTH

====
